-------------------------------- MODULE Http --------------------------------
(***************************************************************************)
(* A request on its way through the layers around a handler, and through   *)
(* those of the RPCs it makes: pkg/middleware over net/http, with          *)
(* pkg/request, pkg/validation and pkg/response in the handler, and        *)
(* pkg/grpcmiddleware on both ends of the hop from the auth to the user    *)
(* service.  A layer does its part on the way in and passes on, answers,   *)
(* or lets the handler's answer or panic come back out through it.         *)
(*                                                                         *)
(* Abstracted: a status to its number or gRPC code, a body and a header to *)
(* what the layers find out about it, a request id to where it was made.   *)
(* What the operations do to their stores is in the other modules; here    *)
(* they end in any way they can.                                           *)
(***************************************************************************)
EXTENDS RateLimit, Sequences, Errors

CONSTANTS
  Requests,   \* requests under way at once; each is followed by others
  Global      \* the middleware given to Chain by the routers, in its order

\* Request id first, access line second; a recovery is somewhere behind them.
ASSUME GlobalAssumption ==
  /\ Global \in Seq({"RequestID", "Logger", "Cors", "RateLimit", "PanicRecovery"})
  /\ Len(Global) > 2 /\ Global[1] = "RequestID" /\ Global[2] = "Logger"
  /\ \A i \in 3..Len(Global) : Global[i] \notin {"RequestID", "Logger"}
  /\ \E i \in DOMAIN Global : Global[i] = "PanicRecovery"

VARIABLES
  req,     \* what each request carries
  at,      \* the layer it is in, of its HTTP chain and of the RPC's
  dir,     \* where it is going there: "off", "in", "wait", "out", "panic", "over"
  ctx,     \* the request id in the context there
  method,  \* the RPC it makes: "none", "ExistsByEmail", "Create"
  code,    \* the status the RPC comes back with
  lines,   \* the access lines written there
  others,  \* request ids in its error lines and in the event it led to
  rec,     \* Logger's statusRecorder
  wire,    \* the status sent to the client, 0 before
  header   \* X-Request-ID of the answer

answer == <<rec, wire, header>>
vars == <<limiter, req, at, dir, ctx, method, code, lines, others, answer>>

Hops == {"http", "rpc"}
Ids == {"none", "given", "http", "rpc"}   \* no id, the client's, minted in a hop
Statuses == {200, 201, 400, 401, 404, 409, 429, 500}
GrpcCodes == {"OK", "AlreadyExists", "InvalidArgument", "Internal", "NotFound"}

\* What a request carries that more than one layer looks at; the rest is chosen where
\* it is read.
Request == [route : {"register", "users"}, id : {"none", "given"}]   \* X-Request-ID

TypeOK ==
  /\ LimiterTypeOK
  /\ req \in [Requests -> Request]
  /\ at \in [Requests -> [Hops -> Nat]]
  /\ dir \in [Requests -> [Hops -> {"off", "in", "wait", "out", "panic", "over"}]]
  /\ ctx \in [Requests -> [Hops -> Ids]]
  /\ method \in [Requests -> {"none", "ExistsByEmail", "Create"}]
  /\ code \in [Requests -> GrpcCodes]
  /\ lines \in [Requests -> [http : Seq([id : Ids, status : Statuses]),
                             rpc : Seq([id : Ids, status : GrpcCodes])]]
  /\ others \in [Requests -> SUBSET Ids]
  /\ rec \in [Requests -> Statuses]
  /\ wire \in [Requests -> Statuses \cup {0}]
  /\ header \in [Requests -> Ids]

-----------------------------------------------------------------------------
(* Chains.                                                                 *)

\* Plausible bug: the loop runs forwards and turns the order around.
ChainForwards(middlewares) ==
  LET wrapped[n \in 0..Len(middlewares)] ==
        IF n = 0 THEN <<>> ELSE <<middlewares[n]>> \o wrapped[n - 1]
  IN  wrapped[Len(middlewares)]

\* Chain wraps from the last to the first, so the first is outermost.
Chain(middlewares) ==
  LET wrapped[n \in 0..Len(middlewares)] ==
        IF n = 0 THEN <<>> ELSE <<middlewares[Len(middlewares) - n + 1]>> \o wrapped[n - 1]
  IN  wrapped[Len(middlewares)]

\* main of the user service: grpc.ChainUnaryInterceptor, the first outermost.
Interceptors == <<"RequestID", "Logger", "Recovery", "Validation">>

Routes ==
  [register |-> Chain(Global) \o <<"Register">>,
   users |-> Chain(Global) \o <<"Auth", "Create">>]

Layers(r, h) == IF h = "rpc" THEN Interceptors \o <<"Method">> ELSE Routes[req[r].route]

Layer(r, h) == IF at[r][h] \in DOMAIN Layers(r, h) THEN Layers(r, h)[at[r][h]] ELSE "none"

\* Request r is in this layer of h, going that way.
In(r, h, layer, way) == Layer(r, h) = layer /\ dir[r][h] = way

Move(r, h, to, way) ==
  /\ at' = [at EXCEPT ![r][h] = to]
  /\ dir' = [dir EXCEPT ![r][h] = way]

\* next.ServeHTTP; the way back, out of the outermost layer at the end.
Pass(r, h) == Move(r, h, at[r][h] + 1, "in")
Back(r, h) == Move(r, h, at[r][h] - 1, IF at[r][h] = 1 THEN "over" ELSE "out")
Unwind(r, h) == Move(r, h, at[r][h] - 1, IF at[r][h] = 1 THEN "over" ELSE "panic")

\* statusRecorder.WriteHeader: Logger sees what is written inside of it.
Record(r, status) ==
  rec' = IF \E i \in 1..at[r]["http"] - 1 : Layers(r, "http")[i] = "Logger"
         THEN [rec EXCEPT ![r] = status] ELSE rec

\* JSONResponse: the first status is the one sent.
Write(r, status) ==
  /\ wire' = [wire EXCEPT ![r] = IF @ = 0 THEN status ELSE @]
  /\ Record(r, status)
  /\ UNCHANGED header

\* The request id of the logger in the context; "none" is the default logger.
FromContext(r, h) == ctx[r][h]

Mention(r, h) == others' = [others EXCEPT ![r] = @ \cup {FromContext(r, h)}]

\* The event carries the request id as its trace_id.
NewEnvelope(r, h) == Mention(r, h)

\* response.Error, which logs the internal ones.
Error(r, err) ==
  /\ Write(r, HttpStatus(From(err)))
  /\ IF From(err) = "internal" THEN Mention(r, "http") ELSE UNCHANGED others

Log(r, h, status) ==
  lines' = [lines EXCEPT ![r][h] = Append(@, [id |-> FromContext(r, h), status |-> status])]

\* What no layer below touches unless it says so.
Rest == UNCHANGED <<limiter, req, method, code>>

-----------------------------------------------------------------------------
(* Layers of both kinds: request id, access line, recovery.                *)

Start(r, what) ==
  /\ req' = [req EXCEPT ![r] = what]
  /\ at' = [at EXCEPT ![r] = [http |-> 1, rpc |-> 0]]
  /\ dir' = [dir EXCEPT ![r] = [http |-> "in", rpc |-> "off"]]
  /\ ctx' = [ctx EXCEPT ![r] = [h \in Hops |-> "none"]]
  /\ method' = [method EXCEPT ![r] = "none"]
  /\ code' = [code EXCEPT ![r] = "OK"]
  /\ lines' = [lines EXCEPT ![r] = [h \in Hops |-> <<>>]]
  /\ others' = [others EXCEPT ![r] = {}]
  /\ rec' = [rec EXCEPT ![r] = 200]
  /\ wire' = [wire EXCEPT ![r] = 0]
  /\ header' = [header EXCEPT ![r] = "none"]

Arrive(r) ==
  /\ dir[r]["http"] \in {"off", "over"} /\ dir[r]["rpc"] \in {"off", "over"}
  /\ \E what \in Request : Start(r, what)
  /\ UNCHANGED limiter

\* PropagateRequestID: the id in the caller's context goes along as metadata.
Incoming(r, h) == IF h = "http" THEN req[r].id ELSE ctx[r]["http"]

\* Plausible bug: the metadata is read under another key than it was sent.
RequestIDAfresh(r, h) ==
  /\ In(r, h, "RequestID", "in")
  /\ LET id == IF h = "http" /\ Incoming(r, h) # "none" THEN Incoming(r, h) ELSE h IN
       /\ ctx' = [ctx EXCEPT ![r][h] = id]
       /\ header' = IF h = "http" THEN [header EXCEPT ![r] = id] ELSE header
  /\ Pass(r, h) /\ Rest /\ UNCHANGED <<lines, others, rec, wire>>

\* The id that came in, or a new one.
RequestID(r, h) ==
  /\ In(r, h, "RequestID", "in")
  /\ LET id == IF Incoming(r, h) # "none" THEN Incoming(r, h) ELSE h IN
       /\ ctx' = [ctx EXCEPT ![r][h] = id]
       /\ header' = IF h = "http" THEN [header EXCEPT ![r] = id] ELSE header
  /\ Pass(r, h) /\ Rest /\ UNCHANGED <<lines, others, rec, wire>>

\* Layers that have nothing to do on the way in.
Enter(r, h) ==
  /\ dir[r][h] = "in" /\ Layer(r, h) \in {"Logger", "PanicRecovery", "Recovery"}
  /\ Pass(r, h) /\ Rest /\ UNCHANGED <<ctx, lines, others, answer>>

\* The access line, on the way out.
Logger(r, h) ==
  /\ In(r, h, "Logger", "out")
  /\ Log(r, h, IF h = "http" THEN rec[r] ELSE code[r])
  /\ Back(r, h) /\ Rest /\ UNCHANGED <<ctx, others, answer>>

\* An answer passes the others untouched.
Leave(r, h) ==
  /\ dir[r][h] = "out" /\ Layer(r, h) # "Logger"
  /\ Back(r, h) /\ Rest /\ UNCHANGED <<ctx, lines, others, answer>>

\* A panic skips what the others do on the way out.
Panic(r, h) ==
  /\ dir[r][h] = "panic" /\ Layer(r, h) \notin {"PanicRecovery", "Recovery"}
  /\ Unwind(r, h) /\ Rest /\ UNCHANGED <<ctx, lines, others, answer>>

\* Its log line and the answer to it: 500.
PanicRecovery(r) ==
  /\ In(r, "http", "PanicRecovery", "panic")
  /\ Error(r, "panic")
  /\ Back(r, "http") /\ Rest /\ UNCHANGED <<ctx, lines>>

Recovery(r) ==
  /\ In(r, "rpc", "Recovery", "panic")
  /\ code' = [code EXCEPT ![r] = "Internal"]
  /\ Mention(r, "rpc")
  /\ Back(r, "rpc") /\ UNCHANGED <<limiter, req, method, ctx, lines, answer>>

-----------------------------------------------------------------------------
(* HTTP layers.                                                            *)

\* A preflight (OPTIONS) is answered here.
Cors(r) ==
  /\ In(r, "http", "Cors", "in")
  /\ \/ Write(r, 200) /\ Back(r, "http")
     \/ Pass(r, "http") /\ UNCHANGED answer
  /\ Rest /\ UNCHANGED <<ctx, lines, others>>

\* Headers name an address or do not.
Source == [real : Addresses \cup {""}, forwarded : Addresses \cup {""}, remote : Addresses]

\* clientIP: X-Real-IP, the first of X-Forwarded-For, the connection's address.
ClientIP(source) ==
  IF source.real # "" THEN source.real
  ELSE IF source.forwarded # "" THEN source.forwarded ELSE source.remote

RateLimit(r) ==
  /\ In(r, "http", "RateLimit", "in")
  /\ \E source \in Source :
       \/ /\ Refuse(ClientIP(source))
          /\ Write(r, HttpStatus("toomany")) /\ Back(r, "http")
       \/ /\ Allow(ClientIP(source)) \/ FailOpen(ClientIP(source))
          /\ Pass(r, "http") /\ UNCHANGED answer
  /\ UNCHANGED <<req, method, code, ctx, lines, others>>

\* X-User-ID, set by the gateway from the access token, is a positive number or not.
Auth(r) ==
  /\ In(r, "http", "Auth", "in")
  /\ \/ Pass(r, "http") /\ UNCHANGED <<answer, others>>
     \/ Error(r, "unauthorized") /\ Back(r, "http")
  /\ Rest /\ UNCHANGED <<ctx, lines>>

\* Anything but one JSON object of bounded size with known fields is malformed; an
\* object that breaks a rule of its DTO is unfit.
Body == {"malformed", "unfit", "good"}
DecodeJSON(what) == IF what = "malformed" THEN "invalid" ELSE "none"
Validate(what) == IF what = "unfit" THEN "invalid" ELSE "none"

\* A handler refuses the body before it calls the service.
Decode(r) ==
  /\ dir[r]["http"] = "in" /\ Layer(r, "http") \in {"Register", "Create"}
  /\ \E what \in Body, check \in {"decode", "validate"} :
       LET err == IF check = "decode" THEN DecodeJSON(what) ELSE Validate(what) IN
         err # "none" /\ Error(r, err)
  /\ Back(r, "http")
  /\ Rest /\ UNCHANGED <<ctx, lines>>

\* A handler panics before it has answered; none does anything after it.
HandlerPanics(r) ==
  /\ dir[r]["http"] = "in" /\ Layer(r, "http") \in {"Register", "Create"}
  /\ Unwind(r, "http") /\ Rest /\ UNCHANGED <<ctx, lines, others, answer>>

\* UserHandler.Create and its event.
Create(r) ==
  /\ In(r, "http", "Create", "in")
  /\ \/ Write(r, 201) /\ NewEnvelope(r, "http")
     \/ \E err \in {"conflict", "other"} : Error(r, err)
  /\ Back(r, "http") /\ Rest /\ UNCHANGED <<ctx, lines>>

-----------------------------------------------------------------------------
(* Handler.Register, its RPCs and their layers.                            *)

Call(r, rpc) ==
  /\ method' = [method EXCEPT ![r] = rpc]
  /\ at' = [at EXCEPT ![r]["rpc"] = 1]
  /\ dir' = [dir EXCEPT ![r] = [http |-> "wait", rpc |-> "in"]]
  /\ ctx' = [ctx EXCEPT ![r]["rpc"] = "none"]
  /\ code' = [code EXCEPT ![r] = "OK"]

Register(r) ==
  /\ In(r, "http", "Register", "in")
  /\ Call(r, "ExistsByEmail")
  /\ UNCHANGED <<limiter, req, lines, others, answer>>

\* The answer of the RPC: 409 for a taken e-mail, the next RPC, or 201.
Return(r) ==
  /\ dir[r]["http"] = "wait" /\ dir[r]["rpc"] = "over"
  /\ \/ /\ code[r] # "OK"
        /\ Error(r, FromGrpc(code[r])) /\ Back(r, "http")
        /\ UNCHANGED <<method, code, ctx>>
     \/ /\ code[r] = "OK" /\ method[r] = "ExistsByEmail"
        /\ \/ Error(r, "conflict") /\ Back(r, "http") /\ UNCHANGED <<method, code, ctx>>
           \/ Call(r, "Create") /\ UNCHANGED <<others, answer>>
     \/ /\ code[r] = "OK" /\ method[r] = "Create"
        /\ Write(r, 201) /\ Back(r, "http") /\ UNCHANGED <<method, code, ctx, others>>
  /\ UNCHANGED <<limiter, req, lines>>

\* Timeout: the call returns without the RPC, which goes on at the other end, if it
\* got there.
Deadline(r) ==
  /\ dir[r]["http"] = "wait" /\ dir[r]["rpc"] # "over"
  /\ Error(r, FromGrpc("DeadlineExceeded")) /\ Back(r, "http")
  /\ Rest /\ UNCHANGED <<ctx, lines>>

\* The rules of the message, which are not those of the HTTP body.
Validation(r) ==
  /\ In(r, "rpc", "Validation", "in")
  /\ \/ Pass(r, "rpc") /\ UNCHANGED code
     \/ /\ code' = [code EXCEPT ![r] = "InvalidArgument"]
        /\ Back(r, "rpc")
  /\ UNCHANGED <<limiter, req, method, ctx, lines, others, answer>>

\* GRPCServer.ExistsByEmail and Create, with the event of the latter.
Method(r) ==
  /\ In(r, "rpc", "Method", "in")
  /\ \/ /\ Back(r, "rpc") /\ UNCHANGED code
        /\ IF method[r] = "Create" THEN NewEnvelope(r, "rpc") ELSE UNCHANGED others
     \/ /\ \E err \in {"conflict", "other"} :
             code' = [code EXCEPT ![r] = GrpcCode(From(err))]
        /\ Back(r, "rpc") /\ UNCHANGED others
     \/ Unwind(r, "rpc") /\ UNCHANGED <<code, others>>
  /\ UNCHANGED <<limiter, req, method, ctx, lines, answer>>

-----------------------------------------------------------------------------

\* The limiter on its own: time passes, Redis loses a key.
Elsewhere ==
  /\ Tick \/ \E a \in Addresses : Lose(a)
  /\ UNCHANGED <<req, at, dir, ctx, method, code, lines, others, answer>>

Init ==
  /\ LimiterInit
  /\ req = [r \in Requests |-> CHOOSE what \in Request : TRUE]
  /\ at = [r \in Requests |-> [h \in Hops |-> 0]]
  /\ dir = [r \in Requests |-> [h \in Hops |-> "off"]]
  /\ ctx = [r \in Requests |-> [h \in Hops |-> "none"]]
  /\ method = [r \in Requests |-> "none"]
  /\ code = [r \in Requests |-> "OK"]
  /\ lines = [r \in Requests |-> [h \in Hops |-> <<>>]]
  /\ others = [r \in Requests |-> {}]
  /\ rec = [r \in Requests |-> 200]
  /\ wire = [r \in Requests |-> 0]
  /\ header = [r \in Requests |-> "none"]

Next ==
  \/ \E r \in Requests :
       \/ Arrive(r) \/ Cors(r) \/ RateLimit(r) \/ Auth(r) \/ Decode(r) \/ HandlerPanics(r)
       \/ PanicRecovery(r) \/ Create(r) \/ Register(r) \/ Return(r) \/ Deadline(r)
       \/ Recovery(r) \/ Validation(r) \/ Method(r)
       \/ \E h \in Hops : RequestID(r, h) \/ Enter(r, h) \/ Logger(r, h) \/ Leave(r, h)
                          \/ Panic(r, h)
  \/ Elsewhere

Spec == Init /\ [][Next]_vars

\* Time passes.
FairSpec ==
  Spec /\ WF_vars(Tick /\ UNCHANGED <<req, at, dir, ctx, method, code, lines, others, answer>>)

-----------------------------------------------------------------------------
(* Properties.                                                             *)

\* Every request the server is done with was answered, and every hop it entered wrote
\* one access line for each call with the status that went out, whatever panicked,
\* was refused on the way, or ran into the deadline.
AnsweredAndLogged ==
  \A r \in Requests :
    /\ dir[r]["http"] = "over" =>
         wire[r] # 0 /\ [i \in DOMAIN lines[r]["http"] |-> lines[r]["http"][i].status] = <<wire[r]>>
    /\ dir[r]["rpc"] = "over" =>
         /\ Len(lines[r]["rpc"]) = IF method[r] = "Create" THEN 2 ELSE 1
         /\ lines[r]["rpc"][Len(lines[r]["rpc"])].status = code[r]

\* grpc.md: "a single request ID now threads through both services' logs for one
\* logical request", and messaging.md adds the event: access lines, error lines, the
\* event and the answer's header carry the id the client sent or the edge minted.
OneTrace ==
  \A r \in Requests :
    LET ids == others[r] \cup UNION {{lines[r][h][i].id : i \in DOMAIN lines[r][h]} : h \in Hops}
    IN  ids \subseteq {header[r]} /\ header[r] \in {"none", "http", "given"}
        /\ (req[r].id = "given" => header[r] \in {"none", "given"})
=============================================================================
