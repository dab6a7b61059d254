-------------------------------- MODULE Errors ------------------------------
(***************************************************************************)
(* The codes of pkg/apperror and their two translations: to an HTTP status *)
(* (AppError.HTTPStatus) and to a gRPC code and back across the hop from   *)
(* the auth to the user service (grpc_server.go, clients/user/client.go).  *)
(***************************************************************************)

Codes == {"notfound", "invalid", "conflict", "unauthorized", "forbidden", "toomany", "internal"}

\* apperror.From: typed errors pass, gorm's "no such record" is known, the rest is
\* internal.
From(err) ==
  IF err \in Codes THEN err
  ELSE IF err = "ErrRecordNotFound" THEN "notfound" ELSE "internal"

\* AppError.HTTPStatus.
HttpStatus(code) ==
  CASE code = "notfound" -> 404
    [] code = "invalid" -> 400
    [] code = "conflict" -> 409
    [] code = "unauthorized" -> 401
    [] code = "forbidden" -> 403
    [] code = "toomany" -> 429
    [] OTHER -> 500

\* Plausible bug: a conflict crosses the wire as an invalid argument.
GrpcCodeMixedUp(code) ==
  CASE code = "notfound" -> "NotFound"
    [] code = "conflict" -> "InvalidArgument"
    [] OTHER -> "Internal"

\* grpcCode.
GrpcCode(code) ==
  CASE code = "notfound" -> "NotFound"
    [] code = "conflict" -> "AlreadyExists"
    [] code = "invalid" -> "InvalidArgument"
    [] code = "unauthorized" -> "Unauthenticated"
    [] code = "forbidden" -> "PermissionDenied"
    [] OTHER -> "Internal"

\* fromGRPCError.
FromGrpc(code) ==
  CASE code = "NotFound" -> "notfound"
    [] code = "AlreadyExists" -> "conflict"
    [] code = "InvalidArgument" -> "invalid"
    [] code = "Unauthenticated" -> "unauthorized"
    [] code = "PermissionDenied" -> "forbidden"
    [] OTHER -> "internal"
=============================================================================
