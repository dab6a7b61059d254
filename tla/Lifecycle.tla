------------------------------ MODULE Lifecycle ------------------------------
(***************************************************************************)
(* The processes of the three services from start to end: configuration    *)
(* (internal/config/config.go, pkg/config/env.go), the set-up steps of     *)
(* cmd/api/main.go, each of which ends the process when it fails           *)
(* (internal/platform, pkg/messaging/rabbitmq/connection.go), the servers, *)
(* the health endpoints and the graceful shutdown, among dependencies that *)
(* go down and come back, and an operator who changes the environment.     *)
(* Whether what ended is started again is left open: compose restarts a    *)
(* container that exits, but the container runs air, which outlives the    *)
(* program it runs and starts it again when a source file changes.         *)
(*                                                                         *)
(* Abstracted: a setting to what its use finds out about it ("absent",     *)
(* "bad", "good"), a group of settings that are checked together to one.   *)
(* What the requests do, and what a shutdown waits for, is in the other    *)
(* modules.  MaxFaults bounds outages, crashes, signals, refused ports and *)
(* changes of the environment.                                             *)
(***************************************************************************)
EXTENDS Naturals, Sequences

CONSTANTS
  Envs,      \* environments the operator may give each service
  MaxFaults  \* bound on disturbances in a behaviour

ASSUME FaultsAssumption == MaxFaults \in Nat

Services == {"auth", "user", "notification"}

\* main: what each service sets up, in its order.
AuthPlan == <<"config", "store", "client", "http">>
UserPlan == <<"config", "store", "broker", "exchange", "grpc", "http">>
NotificationPlan == <<"config", "store", "broker", "topology", "consumer", "http">>

Plan == [auth |-> AuthPlan, user |-> UserPlan, notification |-> NotificationPlan]

\* The store each one opens; user and notification share RabbitMQ.
Store == [auth |-> "redis", user |-> "userdb", notification |-> "notifdb"]
Dependencies == {"redis", "userdb", "notifdb", "rabbitmq"}

Servers ==
  {<<"auth", "http">>, <<"user", "grpc">>, <<"user", "http">>,
   <<"notification", "consumer">>, <<"notification", "http">>}

Values == {"absent", "bad", "good"}
Environment ==
  [port : Values,                      \* PORT and GRPC_PORT
   store : Values \cup {"spaced"},     \* DB_* or REDIS_ADDR; a password with a space
   broker : Values,                    \* RABBITMQ_URL
   peer : Values,                      \* USER_GRPC_ADDR; NOTIFICATION_SMTP_HOST, _FROM_ADDRESS
   key : Values,                       \* JWT_PRIVATE_KEY_PATH and the file it names
   delay : {"absent", "bad", "negative", "30s", "1m"}]   \* _CONSUMER_RETRY_TTL

ASSUME EnvsAssumption == Envs \in [Services -> SUBSET Environment]

VARIABLES
  up,         \* which dependencies answer
  env,        \* the environment of each service's next or present process
  stage,      \* 0 without a process, else the step of Plan it is at, or past its end
  signalled,  \* services that were told to stop and drain
  conn,       \* services whose AMQP connection is open
  ttl,        \* x-message-ttl of the broker's durable retry queue
  listening,  \* servers that take work
  outage,     \* services whose broker went down since they dialled it (history)
  faults

process == <<stage, signalled, conn, listening>>
vars == <<up, env, process, ttl, outage, faults>>

TypeOK ==
  /\ up \subseteq Dependencies
  /\ env \in [auth : Envs["auth"], user : Envs["user"], notification : Envs["notification"]]
  /\ stage \in [Services -> 0..7]
  /\ signalled \subseteq Services /\ conn \subseteq Services /\ outage \subseteq Services
  /\ ttl \in {"none", "30s", "1m"}
  /\ listening \subseteq Servers
  /\ faults \in 0..MaxFaults

Init ==
  /\ up = {}
  /\ env \in [auth : Envs["auth"], user : Envs["user"], notification : Envs["notification"]]
  /\ stage = [s \in Services |-> 0]
  /\ signalled = {} /\ conn = {} /\ outage = {}
  /\ ttl = "none"
  /\ listening = {}
  /\ faults = 0

SpendFault == faults < MaxFaults /\ faults' = faults + 1

-----------------------------------------------------------------------------
(* Configuration.                                                          *)

\* Plausible bug: an empty value is passed on.
GetEnvVerbatim(value, default) == value

\* GetEnvInt, GetEnvDuration, GetEnvBool: an invalid value counts as an absent one.
GetEnv(value, default) == IF value \in {"absent", "bad"} THEN default ELSE value

\* A port, and settings that must be there whatever they say.
Given(s, required) ==
  /\ GetEnv(env[s].port, "0") # "0"
  /\ \A x \in required : env[s][x] # "absent"

\* loadPrivateKey reads and parses the file.
KeyLoads == env["auth"].key = "good"

AuthConfig == Given("auth", {"peer", "store", "key"}) /\ KeyLoads
UserConfig == Given("user", {"store", "broker"})
NotificationConfig == Given("notification", {"store", "broker", "peer"})

LoadConfig(s) ==
  CASE s = "auth" -> AuthConfig
    [] s = "user" -> UserConfig
    [] s = "notification" -> NotificationConfig

\* DSN escapes the password for a query, where a space is "+", and PostgreSQL is given
\* a "+".
Dsn(s) == IF env[s].store = "spaced" THEN "bad" ELSE env[s].store

\* Redis gets its password as it is.
RedisOptions(s) == IF env[s].store = "spaced" THEN "good" ELSE env[s].store

StoreFits(s) == (IF s = "auth" THEN RedisOptions(s) ELSE Dsn(s)) = "good"

RetryTTL(s) == GetEnv(env[s].delay, "30s")

\* The broker takes the declaration of the retry queue: the first one, or one that
\* is equivalent to what exists.
RetryQueueFits(s) == RetryTTL(s) # "negative" /\ ttl \in {"none", RetryTTL(s)}

-----------------------------------------------------------------------------
(* main: the set-up.                                                       *)

\* Open connects to the store and pings it.
Open(s) == Store[s] \in up /\ StoreFits(s)

Dial(s) == "rabbitmq" \in up /\ env[s].broker = "good"

\* Plausible bug: the stores are opened lazily, without the Ping.
WorksLazily(s, step) ==
  CASE step = "config" -> LoadConfig(s)
    [] step = "broker" -> Dial(s)
    [] step \in {"exchange", "consumer"} -> s \in conn
    [] step = "topology" -> s \in conn /\ RetryQueueFits(s)
    [] OTHER -> TRUE

\* Whether a step succeeds.  The gRPC client of the auth service dials lazily.
Works(s, step) ==
  CASE step = "config" -> LoadConfig(s)
    [] step = "store" -> Open(s)
    [] step = "broker" -> Dial(s)
    [] step \in {"exchange", "consumer"} -> s \in conn
    [] step = "topology" -> s \in conn /\ RetryQueueFits(s)
    [] OTHER -> TRUE

Of(s) == {l \in Servers : l[1] = s}

\* The process is gone, and its connection with it.
Exit(s) ==
  /\ stage' = [stage EXCEPT ![s] = 0]
  /\ signalled' = signalled \ {s}
  /\ conn' = conn \ {s}
  /\ listening' = listening \ Of(s)

\* The operator, the supervisor or air starts the program.
Start(s) ==
  /\ stage[s] = 0
  /\ stage' = [stage EXCEPT ![s] = 1]
  /\ outage' = outage \ {s}
  /\ UNCHANGED <<up, env, signalled, conn, listening, ttl, faults>>

Advance(s, step) ==
  /\ stage' = [stage EXCEPT ![s] = @ + 1]
  /\ conn' = IF step = "broker" THEN conn \cup {s} ELSE conn
  /\ ttl' = IF step = "topology" THEN RetryTTL(s) ELSE ttl
  /\ listening' = listening \cup ({<<s, step>>} \cap Servers)
  /\ UNCHANGED signalled

\* Plausible bug: a failed step is logged and main goes on to wait for a signal.
SetUpLingering(s) ==
  /\ stage[s] \in DOMAIN Plan[s]
  /\ LET step == Plan[s][stage[s]] IN
       IF Works(s, step) THEN Advance(s, step)
       ELSE /\ stage' = [stage EXCEPT ![s] = Len(Plan[s]) + 1]
            /\ UNCHANGED <<signalled, conn, listening, ttl>>
  /\ UNCHANGED <<up, env, outage, faults>>

\* The next step, or os.Exit(1).
SetUp(s) ==
  /\ stage[s] \in DOMAIN Plan[s]
  /\ LET step == Plan[s][stage[s]] IN
       IF Works(s, step) THEN Advance(s, step) ELSE Exit(s) /\ UNCHANGED ttl
  /\ UNCHANGED <<up, env, outage, faults>>

\* The port of a server is taken: os.Exit(1), though another server may be at work.
BindFails(s) ==
  /\ stage[s] \in DOMAIN Plan[s] /\ Plan[s][stage[s]] \in {"grpc", "http"}
  /\ SpendFault /\ Exit(s)
  /\ UNCHANGED <<up, env, ttl, outage>>

-----------------------------------------------------------------------------
(* Running and draining.                                                   *)

Running(s) == stage[s] > Len(Plan[s])

\* SIGTERM: Shutdown, GracefulStop and cancelConsumer stop taking work.
Signal(s) ==
  /\ Running(s) /\ s \notin signalled /\ SpendFault
  /\ signalled' = signalled \cup {s}
  /\ listening' = listening \ Of(s)
  /\ UNCHANGED <<up, env, stage, conn, ttl, outage>>

\* The drains are done, or the 15 seconds over (in the user service an RPC that hangs
\* prevents it for good): the process closes what it has and ends.
Stop(s) ==
  /\ s \in signalled
  /\ Exit(s)
  /\ UNCHANGED <<up, env, ttl, outage, faults>>

-----------------------------------------------------------------------------
(* The environment.                                                        *)

\* The process is killed, by a signal before main handles it among others.
Crash(s) ==
  /\ stage[s] > 0 /\ SpendFault /\ Exit(s)
  /\ UNCHANGED <<up, env, ttl, outage>>

\* A dependency stops answering.  Pools dial again; an AMQP connection does not
\* come back, and Consume returns.
Outage(d) ==
  /\ d \in up /\ SpendFault
  /\ up' = up \ {d}
  /\ IF d = "rabbitmq"
     THEN /\ conn' = {} /\ outage' = outage \cup conn
          /\ listening' = listening \ {<<"notification", "consumer">>}
     ELSE UNCHANGED <<conn, outage, listening>>
  /\ UNCHANGED <<env, stage, signalled, ttl>>

Recover(d) ==
  /\ d \in Dependencies \ up
  /\ up' = up \cup {d}
  /\ UNCHANGED <<env, process, ttl, outage, faults>>

\* The operator changes the environment between two processes.
Reconfigure(s) ==
  /\ stage[s] = 0 /\ SpendFault
  /\ env' \in {[env EXCEPT ![s] = e] : e \in Envs[s] \ {env[s]}}
  /\ UNCHANGED <<up, process, ttl, outage>>

Next ==
  \/ \E s \in Services :
       \/ Start(s) \/ SetUp(s) \/ BindFails(s) \/ Signal(s) \/ Stop(s)
       \/ Crash(s) \/ Reconfigure(s)
  \/ \E d \in Dependencies : Outage(d) \/ Recover(d)

Spec == Init /\ [][Next]_vars

\* A process that runs goes on with its set-up.  Nothing is certain to start one, or to
\* end one that drains.
FairSpec == Spec /\ \A s \in Services : WF_vars(SetUp(s))

-----------------------------------------------------------------------------
(* Properties.                                                             *)

\* GET /healthz and GET /readyz answer 200.
Live(s) == <<s, "http">> \in listening
Ready(s) == Live(s) /\ Store[s] \in up

\* Whoever serves has settings that work, not merely settings: the store and the
\* broker were reached with them.  Its AMQP connection is open unless the broker
\* went down since, and the retry delay in force in the broker is the configured one.
ServesConfigured ==
  \A s \in Services : Running(s) =>
    /\ LoadConfig(s) /\ StoreFits(s)
    /\ s # "auth" => env[s].broker = "good" /\ (s \in conn \/ s \in outage)
    /\ s = "notification" => ttl = RetryTTL(s)

\* What the service needs is there, with settings that fit it.
Fit(s) ==
  /\ LoadConfig(s) /\ Open(s)
  /\ s # "auth" => Dial(s)
  /\ s = "notification" => RetryQueueFits(s)

\* A process is at work and has not been told to stop.
AtWork(s) == stage[s] > 0 /\ s \notin signalled

\* In whatever order the services and their dependencies start, fail and come back,
\* a service whose own needs are met for good becomes ready for good, provided that it
\* is started again as often as it ends: main waits for nothing, it exits instead.
ComesUp == \A s \in Services : <>[]Fit(s) /\ []<>AtWork(s) => <>[]Ready(s)
=============================================================================
