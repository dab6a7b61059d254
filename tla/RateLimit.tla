----------------------------- MODULE RateLimit ------------------------------
(***************************************************************************)
(* The fixed-window limiter of pkg/middleware/ratelimit.go: one Redis key  *)
(* per client address, counted and given its expiry by one Lua script.     *)
(* Time passes in ticks, TicksPerSecond of them to the second, because the *)
(* window is cut to whole seconds for EXPIRE.                              *)
(*                                                                         *)
(* The action of a request is its run of the script and what follows from  *)
(* its answer; module Http has the request around it.  Counts that refuse  *)
(* are not told apart beyond the second one.                               *)
(***************************************************************************)
EXTENDS Naturals

CONSTANTS
  Addresses,      \* client addresses
  Limit,          \* requests allowed in a window
  Window,         \* its length in ticks
  TicksPerSecond

ASSUME LimiterAssumption ==
  Limit \in Nat \ {0} /\ Window \in Nat /\ TicksPerSecond \in Nat \ {0}

\* int64(window.Seconds()): EXPIRE and Retry-After get whole seconds.
WindowSec == Window \div TicksPerSecond
Span == WindowSec * TicksPerSecond

VARIABLES
  count,   \* the counter of each key, 0 without a key
  ttl,     \* ticks until it expires, 0 without a key
  recent   \* ages of the latest requests let in on their count, newest first (history)

limiter == <<count, ttl, recent>>

Latest == 1..2 * Limit + 1

LimiterTypeOK ==
  /\ count \in [Addresses -> 0..Limit + 2]
  /\ ttl \in [Addresses -> 0..Span]
  /\ recent \in [Addresses -> [Latest -> 0..Span]]

LimiterInit ==
  /\ count = [a \in Addresses |-> 0]
  /\ ttl = [a \in Addresses |-> 0]
  /\ recent = [a \in Addresses |-> [i \in Latest |-> Span]]

-----------------------------------------------------------------------------

Smaller(m, n) == IF m < n THEN m ELSE n

\* What INCR returns.
Incremented(a) == Smaller(count[a] + 1, Limit + 2)

\* Plausible bug: every request starts the expiry again.
ScriptSliding(a) ==
  /\ count' = [count EXCEPT ![a] = IF Span = 0 THEN 0 ELSE Incremented(a)]
  /\ ttl' = [ttl EXCEPT ![a] = Span]

\* incrScript: EXPIRE with the first count of a window; a window under a second
\* expires at once.
Script(a) ==
  /\ count' = [count EXCEPT ![a] = IF Span = 0 THEN 0 ELSE Incremented(a)]
  /\ ttl' = [ttl EXCEPT ![a] = IF Incremented(a) = 1 THEN Span ELSE @]

LetIn(a) ==
  recent' = [recent EXCEPT ![a] = [i \in Latest |-> IF i = 1 THEN 0 ELSE @[i - 1]]]

\* Plausible bug: one more than the limit is let in.
AllowOneMore(a) ==
  /\ Script(a) /\ Incremented(a) <= Limit + 1
  /\ LetIn(a)

Allow(a) ==
  /\ Script(a) /\ Incremented(a) <= Limit
  /\ LetIn(a)

\* 429, with Retry-After.
Refuse(a) ==
  /\ Script(a) /\ Incremented(a) > Limit
  /\ UNCHANGED recent

\* Redis cannot be asked, or its answer is lost: the request passes uncounted, or
\* beyond its count.
FailOpen(a) ==
  \/ UNCHANGED limiter
  \/ /\ Script(a)
     /\ IF Incremented(a) <= Limit THEN LetIn(a) ELSE UNCHANGED recent

\* Plausible bug: nobody drops a key whose expiry has come.
TickPast ==
  /\ ttl' = [a \in Addresses |-> IF count[a] = 0 THEN 0 ELSE ttl[a] - 1]
  /\ recent' = [a \in Addresses |-> [i \in Latest |-> Smaller(recent[a][i] + 1, Span)]]
  /\ UNCHANGED count

\* Time passes; a key whose expiry has come is gone.
Tick ==
  /\ count' = [a \in Addresses |-> IF ttl[a] <= 1 THEN 0 ELSE count[a]]
  /\ ttl' = [a \in Addresses |-> IF ttl[a] = 0 THEN 0 ELSE ttl[a] - 1]
  /\ recent' = [a \in Addresses |-> [i \in Latest |-> Smaller(recent[a][i] + 1, Span)]]

\* Redis loses the key; the history starts afresh.
Lose(a) ==
  /\ count[a] > 0
  /\ count' = [count EXCEPT ![a] = 0]
  /\ ttl' = [ttl EXCEPT ![a] = 0]
  /\ recent' = [recent EXCEPT ![a] = [i \in Latest |-> Span]]

LimiterNext ==
  \/ \E a \in Addresses : Allow(a) \/ Refuse(a) \/ FailOpen(a) \/ Lose(a)
  \/ Tick

LimiterSpec == LimiterInit /\ [][LimiterNext]_limiter

-----------------------------------------------------------------------------
(* Properties.                                                             *)

\* rate-limiting.md: "a client can send 2N requests in a short window", and no more:
\* as long as Redis keeps its keys, any 2N + 1 requests an address was let in with
\* are spread over at least the window EXPIRE was given.
BurstIsBounded == \A a \in Addresses : recent[a][2 * Limit + 1] = Span

\* Whoever is refused is not refused for ever, however often the clients behind its
\* address go on asking: every key in use expires.
RefusalEnds == \A a \in Addresses : count[a] > Limit ~> count[a] <= Limit
=============================================================================
