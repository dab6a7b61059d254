# Verification of go-microservice

TLA+ models of the services of this repository, the TLC runs that check them on
small instances, and proofs, checked by TLAPS, of the properties that matter most
for every value of the constants.

## The system

| Component (source) | State it keeps | Operations | Talks to |
|---|---|---|---|
| **auth** (`services/auth`) | refresh tokens in Redis, one key each with a TTL | `Register`, `Login`, `Refresh`, `Logout` over HTTP | user (gRPC with a deadline), Redis, the browser's cookie |
| **user** (`services/user`) | the `users` table (e-mail UNIQUE), the connection pool, one AMQP channel in confirm mode | create / read / list / update / delete over HTTP; `ExistsByEmail`, `GetByEmail`, `Create` over gRPC | PostgreSQL, RabbitMQ (publishes `user.created`) |
| **notification** (`services/notification`) | the `notifications` table (event_id UNIQUE), one AMQP channel, a consumer goroutine | consume `user.created`, send the welcome mail, record the outcome; read-only HTTP | RabbitMQ, SMTP, PostgreSQL |
| **messaging** (`pkg/messaging/rabbitmq`) | exchanges, main, retry and dead-letter queues in the broker | `DeclareConsumerTopology`, `Publish`, `Consume`, park | used by user and notification |
| **gateway** (`deploy/kong`) | - | verifies JWTs, sets `X-User-ID`, limits rates | in front of all |
| **middleware** (`pkg/middleware`, `pkg/grpcmiddleware`) | the request's context; rate-limit counters in Redis | request id, access lines, recovery, CORS, rate limit, user id, deadline | around every handler and RPC |
| **shared packages** (`pkg`) | - | error codes, pagination and queries, tokens, decoding and validation, environment | used by the services |
| **processes** (`services/*/cmd/api`, `internal/config`, `internal/platform`, `internal/health`) | the environment, the open connections, the listening servers | `main`: configuration, set-up, servers, shutdown; `/healthz`, `/readyz` | whoever starts them, every dependency |
| **docs** (`services/docs`) | - | serves static pages | - |

How they interact. A registration goes auth -> user (`ExistsByEmail`, then `Create`)
under a deadline per RPC; the user service inserts the row, then publishes the
event, best effort, and answers. The broker routes the event into the queue the
notification service declared; a failed handling is nacked into the retry queue, comes
back when its TTL expires, and after `MaxRetries` trips is recorded as failed and
parked in the dead-letter queue. Login, refresh and logout touch only Redis (and
one read of the user service).

What is hard here, and what makes each component correct:

- **consumer**: at-least-once delivery, several replicas, a handler of three external
  effects (e-mail, row, Ack) with a crash possible between any two, a context that is
  cancelled under the handler at shutdown. Correct when no event disappears without a
  row, a DLQ copy or an undecodable body; when retries are exactly budgeted; when the
  first verdict stands; and when every event comes to an end.
- **publisher and topology**: a confirm that races the request's context and the end of
  the channel; two services that start in any order. Correct when success means the
  broker took the message, when no call hangs, and when the consumer never runs on
  half a topology.
- **user service**: check-then-insert and read-then-write under READ COMMITTED, lost
  commit acknowledgements, a bounded pool. Correct when e-mails are unique, answers are
  true, a deletion lasts, nobody is announced twice and the pool neither leaks nor
  deadlocks.
- **registration**: an outcome in doubt when a deadline passes, cancellation that
  reaches the server between insert and publish, error codes translated twice. Correct
  when 201 and 409 can be believed and when it is answered even if the user service hangs.
- **sessions**: rotation as GET, DEL, SET of overlapping requests, and answers that
  reach the cookie jar out of order. Correct when a dead token stays dead, old and new
  tokens never overlap, and the browser is left with a cookie that works.
- **middleware**: layers that act on the way in, on the way out, or only under a panic, on
  two hops whose chains differ, with a deadline that cuts one hop off from the other. Correct
  when every request is answered and logged once per hop with the status that was sent, and when
  one id runs through all of it; the rate limiter when bursts are bounded and nobody is locked out.
- **processes**: three services and four dependencies that start, fail and come back in any
  order, and settings that may be wrong. Correct when nobody serves with settings that were not
  tried, and when whoever can serve comes up if it is started again.

`PROJECT.json` lists every component with what is modelled of it, and the hazards of
the code line by line with the properties that cover them.

## Modules

| Module | Models | Proofs |
|---|---|---|
| `Consumer` | `pkg/messaging/rabbitmq/consumer.go`, the notification handler, store and mailer, the process around them, several replicas | `ConsumerProofs` |
| `EventLedger` | what the consumer promises: an event opens, gets at most one verdict, is parked, closes when accounted for | refinement in `ConsumerProofs` |
| `Publishing` | `publisher.go`, the startup declarations of both services, the broker's routing | `PublishingProofs` |
| `Users` | create, register, update and delete over the table and the pool | `UserProofs` |
| `Accounts` | what the user service promises: every request is one atomic operation on a set of accounts | refinement in `UserProofs` |
| `Errors` | the error codes and their translations to HTTP, to gRPC and back | - |
| `Registration` | `Register` of auth, its gRPC client and deadline, composed with `Users` (`INSTANCE`) | `RegistrationProofs` |
| `Delivery` | `Registration` composed with `EventLedger`: a registration followed to what became of its event | `RegistrationProofs` |
| `Sessions` | login, refresh, logout over Redis and the cookie jar | `SessionProofs` |
| `Listing` | a client walking a list endpoint: `pkg/pagination`, `pkg/query`, `GetAll` | `ListingProofs` |
| `RateLimit` | the fixed-window limiter: its script, its expiry, Redis failing | `HttpProofs` |
| `Http` | the layers around handlers and RPCs, composed with `RateLimit` and `Errors` | `HttpProofs` |
| `Lifecycle` | the processes: configuration, set-up, health, shutdown, among dependencies | `LifecycleProofs` |
| `MC*` | the small instances for TLC | - |

**Consumer.** Each replica has a program counter (`pc`): `idle` is the `select` of
`Consume`, `check` .. `ack` are the calls of `handle` in their order, `stopped` is
`Consume` after its return, `down` a process that is not running. `inbox` is the buffered
deliveries channel, `cur` the delivery in hand. `loc`, `holder`, `deaths` and `dlq` are
the broker's side. Every call that can fail does so by spending from `MaxFaults`,
except that a cancelled context fails it for free and SMTP may refuse as often as it
likes; a database write that fails may have happened (its answer was lost). `LoseChannel` requeues what the
channel held while the handler, unaware, continues: its later Ack is an error that is
only logged. `Submit`, the SMTP dialogue, may never return: only the dial before it watches a
context. `early` counts the disturbances that struck before an event had a row and
exists only to say what duplicates cost.

**EventLedger.** Three facts per event (state, verdict, DLQ copies) and four steps.
`Consumer` implements it under the mapping at its end.

**Publishing.** `declared` is what exists in the broker, which survives every process;
`Declare` makes the seven declarations of `DeclareConsumerTopology` one at a time.
`call` and `message` separate what the caller was told from what became of the message. The user
service drains its servers (`draining`) and only then closes the connection. After `TimeUp` it no longer
waits for HTTP requests, while RPCs (`Rpcs`) are cancelled and waited for all the same: `GracefulStop`
returns only when the handlers have, even after `Stop` (grpc v1.81.1).

**Users.** One step per SQL statement, which gorm wraps in a transaction of its own;
`Update` is `Begin`, `Read`, `Check`, `Update` on one connection of the pool. A statement
outside a transaction needs an idle connection for its duration. `Violates` is the unique
index. History variables (`writes`, `seen`, `wrote`, `taken`) exist for properties only.

**Accounts.** A request takes effect at one moment or not at all, and a refusal is true at the moment it is
given: creating takes an id that was never given out and an e-mail nobody has, changing and removing take an
account that is there. A creation is confirmed in a step of its own, after the announcement, which
happens once at most. Only a request answered with a 500 leaves open whether it took effect. `Users` implements it
under the mapping at its end: an id was given out when its row was written, and a request took effect
when it wrote. The lost update of `users_lost_update` is not at odds with that: an update
replaces all that a request may change, so what it read decides only whether it is refused.

**Registration and Delivery.** The "register" requests of `Users` are its `Create` RPCs. `Deadline`
answers the client and marks the context expired; `Cancelled` is what the server then
does, wherever it is. `GrpcCode`, `FromGrpc` and `HttpStatus` of `Errors` carry an error across.
No operation of this composition deletes a user. In `Delivery` the step in which the broker takes
an event of `Users` opens it in `EventLedger`, whose other steps are the notification service, unless that
service never ran: then the queue does not exist and the event is `lost`, as in `publishing_start_order`.
`consumer` says whether a notification service is working; it starts (`Attend`) and goes away (`Abandon`: down,
cut off from the broker, or hung) as it likes. The two halves were checked apart: `Consumer` implements
the ledger, so the composition uses it in place of the consumer.

**Sessions.** One step per Redis command. Tokens are random and a browser only has its
own, so one browser with several open requests is the whole system. `Send*` reads the
cookie jar, `Deliver` applies the answer's `Set-Cookie`, in any order.

**Listing.** One client asks for page after page until `total_pages`; others write between its
requests and between the count and the fetch of one request. A table order the query does not
fix is chosen anew for every page. `Parse` is the loop of `query.go:54`, a function of how many directives
it has gone through.

**RateLimit.** A key's counter and its remaining life in ticks; `Window` is in ticks and is cut to whole
seconds as `ratelimit.go:37` does. `recent` keeps the ages of the last 2 N + 1 requests an address was
let in with, which is what the bound on bursts is about. A request is let through uncounted when Redis cannot be
asked; such a request is not one the limiter let in.

**Http.** A request is at a layer (`at`) of one of two hops, going in, waiting, coming out, or coming
out as a panic (`dir`). `Chain` wraps the middlewares from the last to the first, as the loop of
`middleware.go` does; the interceptors are in the
order of `main` of the user service, where recovery is inside of the access line, while the HTTP chain is
the one of `docs/middleware.md:21-26` with recovery innermost. The routers have CORS and the rate limit
commented out, since the gateway does both; the model has them where the document says they belong.
What a layer reads (a body, a user id, an address) is chosen where it reads it.

**Lifecycle.** `Plan` is the order of set-up in each `main`. A setting is "absent", "bad" or "good", as its
use finds out. `Works` says whether a step succeeds, `SetUp` goes on or exits. The retry queue is durable: its
TTL survives the process and a declaration with another one is refused. An outage of the broker closes AMQP
connections for good, which nothing in the code opens again; pools of Redis and PostgreSQL dial again.

## Runs

| Run | Question | Bounds and why they are enough |
|---|---|---|
| `consumer` | accounting, custody by a live process, retry budget, duplicates, refinement of `EventLedger`, every event is settled | 2 events, a good and an undecodable one (events share only the prefetch window and the loop), 2 replicas (one stale, one current handler), a prefetch of 2, so that one delivery waits while the other is handled, 2 retries (first, middle and last trip differ), 2 disturbances |
| `consumer_failure_parked` | *violation*: a recorded failure whose message never reaches the DLQ | 1 event, 1 replica, 1 disturbance |
| `publishing` | what success means, that calls return, that a graceful shutdown fails no accepted request and ends | 2 publishes, one of an RPC and one of an HTTP request, 3 disturbances: each side can restart and the connection break |
| `publishing_start_order` | *violation*: a confirmed publish that was discarded | as above |
| `users` | uniqueness, truth of answers, events, refinement of `Accounts`; every request is answered | 3 requests of any kind, 2 e-mails, 2 ids, 1 disturbance, a pool of two: with one connection an open transaction would shut everybody else out, with two a pair of transactions can starve each other |
| `users_lost_update` | *violation*: an update overwrites a committed write | 3 requests, no disturbance |
| `sessions_safety` | rotation, logout and the cookie jar | 3 tokens, 3 requests open at once, 1 disturbance |
| `sessions_single_use` | *violation*: one token exchanged twice | 2 requests, no disturbance |
| `delivery` | what 201, 409 and silence tell the client; it is answered; whoever is told 201 is dealt with by a notification service that works | 3 requests for one e-mail, mixing RPCs and HTTP creations, 1 disturbance, any number of deadlines, at most 1 DLQ copy of an event (`MaxCopies`) |
| `listing` | completeness of a walk at rest, what reading oldest first guarantees during writes | tables of up to 4 rows, limits 1 to 3 (default and maximum included), 5 sorts, 2 writes: enough for pages to shift twice |
| `http` | one answer and one line per hop, one id through both; bursts and lock-outs | one request at a time of an unbounded number: the script is atomic, so requests meet nowhere else; 1 address, since keys are apart; a limit of 2, a window of 2.5 s in half seconds, so that it is really cut |
| `lifecycle` | nobody serves untried settings; whoever can come up does if it is started | the 3 services, 4 dependencies, for each service one other environment (an unreadable key, a password with a space, a changed retry delay), 3 disturbances |

A payload that does not decode (`BadPayload`) fails every attempt before the mail, and from there on takes the
steps of an event whose mail is always refused. The run leaves that set empty, for a third kind of event
makes it too large; the proofs do not, so `SettledAccounted`, `RetryBudget` and the refinement hold of such
events too, while `EventuallySettled` is checked for good and undecodable ones only.

Deadlock is checked in `http` only: in every other instance the requests, publishes or tokens
run out, a deployment at rest has nothing to do, and a consumer whose replicas all lost their channels
really stands still. Symmetry is used in `sessions_safety`, which has no liveness property.
`MaxFaults`, `MaxWrites`, `MaxId`, `MaxCopies` and the finite sets are the only bounds; each
appears in a guard. A request of `users` that finds `MaxId` used up stays where it is, which
`EveryRequestAnswered` excepts.

### Fairness

- `Consumer`: weak fairness of the loop without the SMTP dialogue (a goroutine that is runnable runs, the
  database answers), of delivery and TTL expiry (the broker), and of the rest of a shutdown once a
  signal came (`main` waits 15 seconds at most). Nothing is assumed of starts, signals, faults, publishes or
  the mail server. `EventuallySettled` names what else it needs: that no dialogue lasts for ever
  (`MailAnswers`), which `smtp.go:48-89` does nothing to ensure, and that from some moment on a replica keeps its
  loop (`SomeoneStays`), for when the channel closes `Consume` returns nil and nothing reconnects.
- `Publishing`: the broker routes and confirms (losing the connection resolves a call too), the
  shutdown's timer fires, `WaitContext` notices that its context was cancelled, and `main` goes on. Handlers get no
  fairness before they wait for a confirmation: they may hang, for instance in the write of the frame.
  `ShutdownEnds` therefore has as its premise that no RPC hangs there; an HTTP request may.
- `Users`: strong fairness of each request's next statement, since `database/sql` hands
  connections to waiters in arrival order, so one that is repeatedly free is eventually its.
- `Delivery`: the auth side: its code runs, and an RPC returns or its timer fires. The user service
  gets no fairness; it may hang for ever. The ledger's steps are weakly fair while the notification service is
  working, which is `EventuallySettled` with its premises; nothing makes it start or keep working, so
  `RegisteredIsSettled` is about a service that works from some moment on.
- `Http`: time passes. Requests get no fairness.
- `Lifecycle`: a process that was started goes on with its set-up. Nothing is assumed of starts: compose has
  `restart: unless-stopped`, but the images run `air` (`docker.md:5`), which stays up when the program exits and
  starts it again when a source file changes. Nor of the end of a shutdown, nor of dependencies. `ComesUp` is
  about needs that are met for good and a program that is started again as often as it ends.
- `Sessions` and `Listing` state no liveness.

## What the runs found

Four statements of the documentation or of comments do not hold of the code; each has a run
that reaches the counterexample and an entry under `findings`:

1. *Parking is guaranteed* (`consumer.go:51`): `onExhausted` writes the failed row before
   `park`; if the publish fails, the requeued delivery is acknowledged by the existence check.
2. *Start order does not matter* (`messaging.md:33`): the publisher declares only the
   exchange, so before the consumer's first start events are confirmed and dropped.
3. *`WithTx` eliminates the lost update* (`service.md:71`): READ COMMITTED without a row
   lock does not.
4. *A refresh token can only be used once* (`auth.md:151`): two overlapping refreshes both
   succeed. The same race lets a session outlive its logout, which `LogoutEnds` excepts.

Three more statements do not hold; no run of their own shows them, but the property beside each is
stated so that it excepts exactly that case, and does not hold without the exception:

- *The context bounds the SMTP call* (`email.md:26`): it bounds the dial. A server that falls silent
  afterwards keeps the only handler of the process (`MailAnswers` in `EventuallySettled`).
- *The forced stop keeps the process from hanging on a stuck RPC* (`services/user/cmd/api/main.go:124`):
  `GracefulStop` waits for the handler of that RPC even after `Stop`; only an RPC that notices its
  cancellation ends (the premise of `ShutdownEnds`).
- *An update checks for a different user's e-mail* (`service.md:19`): the pre-check asks for the e-mail in the
  table, and of two identical updates that change it the second can read the old row and then find the first one's
  commit, a 409 for the user's own address (the second case of `ConflictWasReal`).

Smaller differences met on the way, which the models follow the code in:

- A failed row may stand for an e-mail that was delivered (notification `service.go:79`), when the error
  came after the server accepted it. `DuplicatesCostFaults` bounds what it costs.
- `DeclareConsumerTopology` is "safe to call repeatedly" (`topology.go:38`) only with the same
  retry delay: after a change the broker refuses the retry queue (406) and the service restarts in
  a loop until the queue is deleted. A negative delay does the same.
- A database password with a space fails the first connection (`config.go:33`: `QueryEscape` writes
  "+", which the user part of a URL keeps).
- `USER_GRPC_ADDR` and the SMTP host are not tried at startup, and after an outage of the broker `/readyz`
  stays green over a dead AMQP connection.
- `Retry-After` is the whole window, not the seconds until the reset (`rate-limiting.md:16`).
- The consumer's log lines carry no trace id; the event does. Neither do the limiter's warning
  (`ratelimit.go:51`) and the line about an answer that could not be encoded (`response.go:31`), which
  `OneTrace` is not about.
- `limit=0` gives 10, not 1 (`pagination.md:19`).

## What is proved

The proof modules hold for any sets of events, replicas, requests, tokens and e-mails, any tables, sort
orders and chains of middleware and any limits. The assumptions are the named `ASSUME`s of the modules:
limits are natural numbers, a default limit is positive and not above the greatest one, `None` is distinct,
names are ordered like numbers, a sort order is a sequence of directives (`SortsAssumption`), the requests
of `Users` are finite so that the pool can be counted (`UserAssumption` in `Registration`), and the routers
give `Chain` the request id first, the access line second and a recovery somewhere behind
(`GlobalAssumption`, the order of `docs/middleware.md:21-26`). TLC evaluates each of them in a run.

Every safety property of the runs has a theorem, the refinements of `EventLedger` and of `Accounts` included.

- **Consumer** (`ConsumerProofs`). `TypeCorrect`; `CustodyHolds`; `NothingForgotten`; `NothingUnaccounted`;
  `SentRowsAreTrue`; `BudgetKept`; `VerdictsAreFinal`; `DuplicatesArePaid`; `LedgerImplemented`. The safety properties
  are not inductive: nothing in them says that the handler in an `ack` step may answer
  its message. `Custody` supplies that: a message is unacknowledged exactly while an open
  channel holds it, what a replica has over an open channel is its own and carries the
  broker's retry count, and what a replica has over a closed one is a stale copy whose count can
  only be behind. `StepsJustified`, stated beside the proofs, says what each late step of a handler already
  knows. With both, settling implies an account, a count below the limit stays a count below the
  limit, and every step maps to a step of `EventLedger` or a stutter. `DuplicatesArePaid` keeps an account
  per event (`Paid`): the e-mails sent and the replicas that may still send one after they were cut off are
  at most the disturbances before the row, plus one while the holder is about to record. A replica has an
  event at most once (`Alone`), so it cannot send twice for one disturbance; once there is a row only who
  already passed the check still sends. `Dead` does the same for the copies in the dead-letter queue, where
  a replica that was told to stop may give back one message for nothing. No bound on the replicas is
  assumed: that those who were cut off are finitely many is part of the invariant.
- **Publishing** (`PublishingProofs`). `PublishingTypes`, `SuccessIsTaken`, `GracefulForPublishes`. The first
  rests on declarations only growing (`Taken`), the second on the connection lasting as long as the process,
  and the process as long as a request is being served (`Undisturbed`).
- **Users** (`UserProofs`). `UserTypes`, `EmailsAreUnique`, `PoolBalances`,
  `AnswersAreTrue`, `ConflictsAreReal`, `DeletionsLast`, from the invariant `Whole`, which adds to the
  properties that ids not yet handed out have no row and no writes, and ties a request's history
  to how far it is. The pool is counted with the finite-set theorems of the library. `AnnouncedOnce` needs
  that whoever is about to publish is alone with its id (`Told`) and that requests keep to the
  statements of their operation (`Kinds`). `AccountsImplemented` maps each statement to an operation of
  `Accounts` or to none: the decisions of the pre-check, the read and the check map to nothing unless they refuse,
  and the insert, the update and the deletion carry in themselves the conditions `Accounts` puts on taking effect.
  It uses all of the above, and that a row in the table was written (`Born`).
- **Sessions** (`SessionProofs`). `SessionTypes`, `RotationReplaces`, `LogoutIsFinal`,
  `CookieWorks`, `NoResurrection`. The invariant `Whole` says that a token exchanged for another is dead
  (`Lineage`), that cookies under way were generated (`Carried`), that a new token is known only to the
  answer that carries it (`Undelivered`), and that, while nothing failed, a dead cookie in the
  jar is about to be replaced or cleared by the request that killed it (`Calm`).
- **Registration** (`RegistrationProofs`). `RegistrationTypes`, `AnswersAreKept`, `AnswersSettle`. The
  invariant has a half for the user service (`Served`: a request that wrote has its row, as it was sent) and
  one for the client (`Told`: a registration is with the user service only from its call on, and what it
  was told is so); they meet in the steps that return an RPC. They rest on rows staying (`RowsStay`), since
  this composition has no deletion. `SuccessIsAnnounced` is the safety half of `RegisteredIsSettled`: the
  event of whoever is told 201 is out, exactly once, unless something failed. `SuccessIsOpened` takes it
  to `Delivery`: the ledger opened that event, or it was lost before the notification service first ran.
  `LedgerIsReady`: the composition refuses no publish, since an id is announced once.
- **Listing** (`ListingProofs`). `ListingTypes`, `WalksAreComplete`, `NothingTwice`, `NothingIsMissed`, for tables
  of any size. At rest each page is cut where the one before ended (`Steady`), and the order is the same on
  every page because a sort order that names the key, which `Parse` keeps (`ParseKeeps`), leaves the database only
  one (`OneOrder`). While others write, a row's place is counted by the rows in front of it (`Ahead`): what has
  been received is in front of the next offset, an insertion goes behind everything, and a deletion only
  moves rows forward. Without deletions the ids of the list have no gaps (`Gapless`), so a `total` that is out
  of date still covers what was there when the walk began. `MorePages` is what `TotalPages` is right about.
- **Rate limiter** (`HttpProofs`). `LimiterTypes`, `BurstsAreBounded`: the requests let in on the present
  counter are younger than its expiry, those before it were let in on one counter that had its own N, so
  the request 2 N + 1 back is older than a window. `ServersAreBounded`: a step of `Http` is a step of the
  limiter or leaves it alone (`LimiterImplemented`), so the bound holds of the whole.
- **Middleware** (`HttpProofs`). `HttpTypes`, `RequestsAreAnswered`, `RequestsAreTraced`, for any number of
  requests at once and any middleware in the chain. What a layer knows depends on whether the request-id, the
  access-line and the recovery layer are outside of it, which `Stacked` says of every route. The invariant
  (`Sound`) then states for each request where it can be (`OnItsWay`), that it is answered once it is on its
  way out (`Answered`), that a line is written exactly by passing the access line outwards and carries the
  status sent (`Recorded`), and that only one id is in its contexts (`Traced`). A step of one request leaves
  the others alone.
- **Processes** (`LifecycleProofs`). `ProcessTypes`, `ServingIsConfigured`: every step of the set-up that lies
  behind leaves a fact (`Grounded`) that holds as long as the process does, since the environment only
  changes without one and the retry queue only by the notification service's own declaration.

Two operators of the model are loops over data, `Chain` and `Parse`. The library's induction theorems cannot
be used for them, but its well-founded minima can: a set of naturals that is not empty has a least element
(`Least`), so one with 0 and every successor holds them all (`Induct`), with the set of the lengths for which
a statement holds in place of a predicate. That is how `ChainIsIdentity` and `ParseKeeps` are proved.

Only model-checked: liveness (`EventuallySettled`, `EveryCallReturns`, `ShutdownEnds`,
`EveryRequestAnswered`, `EveryRegistrationAnswered`, `RegisteredIsSettled`, `RefusalEnds`, `ComesUp`), which
is out of the prover's reach along with `ENABLED`.

## Not modelled, and why

- The overflow of `(page-1)*limit` at the width of int.
- Access tokens: signed and parsed by a library, verified by the gateway; nothing is kept.
- The gateway and the docs service: configuration and static pages.
- Which field of a body breaks which rule, wording of errors and logs, CORS origins, log levels.
- Generated code (`pkg/proto`) and the mail's text.
- A deleted user's session, which can be refreshed until it expires: by design of the code, which keeps
  the two stores apart.
- Time: a TTL, a deadline or a timeout may strike at any moment it is pending, except in `RateLimit`,
  whose properties are about lengths of time.

## Plan

Done: consumer and its ledger, publishing with startup and shutdown, users and the accounts they implement,
registration and delivery, sessions, listing, the rate limiter, the middleware, the processes, and eight proof
modules that prove every safety property of the runs. Next:

1. An abstract specification of a session that `Sessions` implements up to the refresh race, with its
   refinement proved.
2. A run of the consumer with payloads that do not decode, which needs a smaller state space first.
