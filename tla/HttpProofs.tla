----------------------------- MODULE HttpProofs -----------------------------
(***************************************************************************)
(* Proofs about RateLimit, for any addresses, any limit and any window,    *)
(* and about Http, for any requests and any middleware the routers give to *)
(* Chain with the request id first, the access line second and a recovery  *)
(* behind them.                                                            *)
(*                                                                         *)
(* The limiter comes first: its invariant ties the ages of the requests to *)
(* what is left of the window.  Then the requests: where each is in its    *)
(* two hops decides what has been sent, written and under which id, and a  *)
(* step of one leaves the others alone, so that one lemma a layer does.    *)
(***************************************************************************)
EXTENDS Http, Integers, WellFoundedInduction, SequenceTheorems, TLAPS

(* The limiter on its own.                                                 *)

\* How many of an address's latest requests its current window has let in at most.
InWindow(a) == Smaller(count[a], Limit)

\* A key in use has an expiry; before the window's own requests come at most Limit of
\* the window before, and those are at least as old as the window has run.
Aged(a) ==
  /\ count[a] > 0 => ttl[a] > 0
  /\ \A i \in Latest :
       /\ i > InWindow(a) + Limit => recent[a][i] = Span
       /\ count[a] > 0 /\ i > InWindow(a) => recent[a][i] >= Span - ttl[a]

Whole == LimiterTypeOK /\ \A a \in Addresses : Aged(a)

\* The window EXPIRE is given is a number of ticks.
LEMMA SpanIsNat == Span \in Nat
<1>1. WindowSec \in Nat
  BY LimiterAssumption, Z3 DEF WindowSec
<1>2. \A m, n \in Nat : m * n \in Nat
  OBVIOUS
<1>3. QED
  BY <1>1, <1>2, LimiterAssumption DEF Span

\* The initial state.
LEMMA Initially == LimiterInit => Whole
BY SpanIsNat, LimiterAssumption
DEF LimiterInit, Whole, LimiterTypeOK, Aged, InWindow, Smaller, Latest

\* What a run of the script does to the count and the expiry.
LEMMA ScriptCounts ==
  ASSUME NEW a \in Addresses, LimiterTypeOK, Aged(a), Script(a)
  PROVE  /\ count' \in [Addresses -> 0..Limit + 2] /\ ttl' \in [Addresses -> 0..Span]
         /\ \A b \in Addresses \ {a} : count'[b] = count[b] /\ ttl'[b] = ttl[b]
         /\ Span = 0 => count'[a] = 0
         /\ Span > 0 => /\ count'[a] = Incremented(a)
                        /\ ttl'[a] = IF count[a] = 0 THEN Span ELSE ttl[a]
BY SpanIsNat, LimiterAssumption DEF Script, LimiterTypeOK, Aged, Incremented, Smaller

\* A window that has just begun or goes on keeps the ages in order when it lets a
\* request in.
LEMMA LetInKept ==
  ASSUME NEW a \in Addresses, Whole, Script(a), Incremented(a) <= Limit, LetIn(a)
  PROVE  Whole'
<1> USE SpanIsNat
<1>0. Limit \in Nat /\ Limit > 0 /\ count[a] \in Nat
  BY LimiterAssumption DEF Whole, LimiterTypeOK
<1>1. recent' \in [Addresses -> [Latest -> 0..Span]]
  <2>1. recent \in [Addresses -> [Latest -> 0..Span]]
    BY DEF Whole, LimiterTypeOK
  <2>2. \A i \in Latest : i # 1 => i - 1 \in Latest
    BY <1>0 DEF Latest
  <2>3. [i \in Latest |-> IF i = 1 THEN 0 ELSE recent[a][i - 1]] \in [Latest -> 0..Span]
    BY <2>1, <2>2
  <2>4. QED
    BY <2>1, <2>3 DEF LetIn
<1>2. LimiterTypeOK'
  BY <1>1, ScriptCounts DEF Whole, LimiterTypeOK
<1>3. ASSUME NEW b \in Addresses, b # a PROVE Aged(b)'
  BY <1>3, ScriptCounts DEF Whole, LimiterTypeOK, Aged, InWindow, LetIn
<1>4. \A i \in Latest : i # 1 => i - 1 \in Latest /\ recent'[a][i] = recent[a][i - 1]
  BY <1>0 DEF LetIn, Whole, LimiterTypeOK, Latest
<1>5. ASSUME Span = 0 PROVE Aged(a)'
  <2>1. count'[a] = 0
    BY <1>5, ScriptCounts DEF Whole
  <2>2. \A i \in Latest : recent'[a][i] = Span
    BY <1>1, <1>5
  <2>3. QED
    BY <2>1, <2>2 DEF Aged
<1>6. ASSUME Span > 0 PROVE Aged(a)'
  <2>1. count'[a] = count[a] + 1 /\ count[a] < Limit
    <3>1. count'[a] = Incremented(a)
      BY <1>6, ScriptCounts DEF Whole
    <3>2. QED
      BY <1>0, <3>1 DEF Incremented, Smaller
  <2>2. InWindow(a)' = InWindow(a) + 1 /\ InWindow(a) = count[a]
    BY <1>0, <2>1 DEF InWindow, Smaller
  <2>3. ttl'[a] > 0
    BY <1>6, ScriptCounts DEF Whole, LimiterTypeOK, Aged
  <2>4. ASSUME NEW i \in Latest, i > InWindow(a)' + Limit PROVE recent'[a][i] = Span
    <3>1. i # 1 /\ i - 1 > InWindow(a) + Limit
      BY <1>0, <2>2, <2>4 DEF Latest
    <3>2. QED
      BY <3>1, <1>4 DEF Whole, Aged
  <2>5. ASSUME NEW i \in Latest, i > InWindow(a)' PROVE recent'[a][i] >= Span - ttl'[a]
    <3>1. i # 1 /\ i - 1 > InWindow(a)
      BY <1>0, <2>2, <2>5 DEF Latest
    <3>2. CASE count[a] = 0
      BY <3>2, <1>1, <1>6, ScriptCounts DEF Whole, LimiterTypeOK
    <3>3. CASE count[a] # 0
      <4>1. ttl'[a] = ttl[a] /\ count[a] > 0
        BY <1>0, <3>3, <1>6, ScriptCounts DEF Whole
      <4>2. QED
        BY <4>1, <3>1, <1>4 DEF Whole, Aged
    <3>4. QED
      BY <3>2, <3>3
  <2>6. QED
    BY <2>3, <2>4, <2>5 DEF Aged
<1>7. Aged(a)'
  BY <1>5, <1>6
<1>8. QED
  BY <1>2, <1>3, <1>7 DEF Whole

\* A request that is refused, or let in beyond its count, leaves the ages alone.
LEMMA BeyondKept ==
  ASSUME NEW a \in Addresses, Whole, Script(a), Incremented(a) > Limit, UNCHANGED recent
  PROVE  Whole'
<1> USE SpanIsNat, LimiterAssumption
<1>1. LimiterTypeOK'
  BY ScriptCounts DEF Whole, LimiterTypeOK
<1>2. ASSUME NEW b \in Addresses, b # a PROVE Aged(b)'
  BY <1>2, ScriptCounts DEF Whole, LimiterTypeOK, Aged, InWindow
<1>3. count[a] >= Limit /\ count[a] > 0
  BY DEF Incremented, Smaller, Whole, LimiterTypeOK
<1>4. ASSUME Span = 0 PROVE Aged(a)'
  <2>1. count'[a] = 0 /\ \A i \in Latest : recent'[a][i] = Span
    BY <1>1, <1>4, ScriptCounts DEF Whole, LimiterTypeOK
  <2>2. QED
    BY <2>1 DEF Aged
<1>5. ASSUME Span > 0 PROVE Aged(a)'
  <2>1. count'[a] >= Limit /\ ttl'[a] = ttl[a]
    BY <1>3, <1>5, ScriptCounts DEF Incremented, Smaller, Whole, LimiterTypeOK
  <2>2. InWindow(a)' = InWindow(a)
    BY <1>1, <1>3, <2>1 DEF InWindow, Smaller, Whole, LimiterTypeOK
  <2>3. QED
    BY <1>3, <2>1, <2>2 DEF Whole, Aged
<1>6. Aged(a)'
  BY <1>4, <1>5
<1>7. QED
  BY <1>1, <1>2, <1>6 DEF Whole

\* As a window runs out its requests grow as old as the window is long.
LEMMA TickKept == Whole /\ Tick => Whole'
<1> SUFFICES ASSUME Whole, Tick PROVE Whole'
  OBVIOUS
<1> USE SpanIsNat, LimiterAssumption
<1>1. LimiterTypeOK'
  BY SMTT(30) DEF Whole, LimiterTypeOK, Tick, Smaller, Latest
<1>2. ASSUME NEW a \in Addresses PROVE Aged(a)'
  <2>1. \A i \in Latest : recent'[a][i] = Smaller(recent[a][i] + 1, Span)
    BY DEF Tick, Whole, LimiterTypeOK
  <2>2. \A i \in Latest : recent[a][i] \in 0..Span
    BY DEF Whole, LimiterTypeOK
  <2>3. CASE ttl[a] <= 1
    <3>1. count'[a] = 0
      BY <2>3 DEF Tick, Whole, LimiterTypeOK
    <3>2. ASSUME NEW i \in Latest, i > Limit PROVE recent[a][i] >= Span - 1
      <4>1. i \in Int /\ InWindow(a) <= Limit /\ InWindow(a) \in Nat
        BY DEF InWindow, Smaller, Whole, LimiterTypeOK, Latest
      <4>2. CASE count[a] = 0
        BY <3>2, <4>1, <4>2, <2>2 DEF Whole, Aged, InWindow, Smaller
      <4>3. CASE count[a] > 0
        BY <3>2, <4>1, <4>3, <2>2, <2>3 DEF Whole, Aged, LimiterTypeOK
      <4>4. QED
        BY <4>2, <4>3 DEF Whole, LimiterTypeOK
    <3>3. \A i \in Latest : i > Limit => recent'[a][i] = Span
      BY <3>2, <2>1, <2>2 DEF Smaller
    <3>4. QED
      BY <3>1, <3>3 DEF Aged, InWindow, Smaller, Latest
  <2>4. CASE ttl[a] > 1
    <3>1. count'[a] = count[a] /\ ttl'[a] = ttl[a] - 1 /\ ttl[a] \in Nat
      BY <2>4 DEF Tick, Whole, LimiterTypeOK
    <3>2. InWindow(a)' = InWindow(a)
      BY <3>1 DEF InWindow
    <3>3. ASSUME NEW i \in Latest, i > InWindow(a) + Limit PROVE recent'[a][i] = Span
      BY <3>3, <2>1 DEF Whole, Aged, Smaller
    <3>4. ASSUME NEW i \in Latest, i > InWindow(a), count[a] > 0
          PROVE  recent'[a][i] >= Span - ttl'[a]
      BY <3>4, <3>1, <2>1, <2>2 DEF Whole, Aged, Smaller
    <3>5. QED
      BY <2>4, <3>1, <3>2, <3>3, <3>4 DEF Aged
  <2>5. QED
    BY <2>3, <2>4 DEF Whole, LimiterTypeOK
<1>3. QED
  BY <1>1, <1>2 DEF Whole

\* A lost key takes its history along.
LEMMA LoseKept == ASSUME NEW a \in Addresses, Whole, Lose(a) PROVE Whole'
BY SpanIsNat, LimiterAssumption DEF Lose, Whole, LimiterTypeOK, Aged, InWindow, Smaller, Latest

\* The inductive invariant holds.
LEMMA Inductive == LimiterSpec => []Whole
<1>1. ASSUME Whole, [LimiterNext]_limiter PROVE Whole'
  <2>1. ASSUME NEW a \in Addresses, Allow(a) PROVE Whole'
    BY <1>1, <2>1, LetInKept DEF Allow
  <2>2. ASSUME NEW a \in Addresses, Refuse(a) PROVE Whole'
    BY <1>1, <2>2, BeyondKept DEF Refuse
  <2>3. CASE UNCHANGED limiter
    BY <1>1, <2>3 DEF limiter, Whole, LimiterTypeOK, Aged, InWindow
  <2>4. ASSUME NEW a \in Addresses, FailOpen(a) PROVE Whole'
    <3>1. CASE Incremented(a) <= Limit
      BY <1>1, <2>3, <2>4, <3>1, LetInKept DEF FailOpen
    <3>2. CASE ~(Incremented(a) <= Limit)
      <4>1. Incremented(a) > Limit
        BY <1>1, <3>2, LimiterAssumption DEF Whole, LimiterTypeOK, Incremented, Smaller
      <4>2. QED
        BY <1>1, <2>3, <2>4, <3>2, <4>1, BeyondKept DEF FailOpen
    <3>3. QED
      BY <3>1, <3>2
  <2>5. QED
    BY <1>1, <2>1, <2>2, <2>3, <2>4, TickKept, LoseKept DEF LimiterNext
<1>2. QED
  BY Initially, <1>1, PTL DEF LimiterSpec

\* The type invariant of the limiter, for any limit, any window and any number of addresses: no key
\* outlives its window, whatever Redis loses and whichever answers are lost.
THEOREM LimiterTypes == LimiterSpec => []LimiterTypeOK
<1>1. Whole => LimiterTypeOK
  BY DEF Whole
<1>2. QED
  BY Inductive, <1>1, PTL

\* No address is let in more than twice the limit within the span of a window.
THEOREM BurstsAreBounded == LimiterSpec => []BurstIsBounded
<1>1. Whole => BurstIsBounded
  <2>1. ASSUME Whole, NEW a \in Addresses PROVE recent[a][2 * Limit + 1] = Span
    <3>1. Limit \in Nat /\ count[a] \in Nat
      BY <2>1, LimiterAssumption DEF Whole, LimiterTypeOK
    <3>2. 2 * Limit + 1 \in Latest /\ 2 * Limit + 1 > InWindow(a) + Limit
      BY <3>1 DEF Latest, InWindow, Smaller
    <3>3. QED
      BY <2>1, <3>2 DEF Whole, Aged
  <2>2. QED
    BY <2>1 DEF BurstIsBounded
<1>2. QED
  BY Inductive, <1>1, PTL

-----------------------------------------------------------------------------
(* The limiter among the layers.                                           *)

\* A request that reaches the limiter asks it for one address.
LEMMA AskedForAnAddress ==
  ASSUME NEW r \in Requests, RateLimit(r)
  PROVE  LimiterNext
<1>1. \A source \in Source : ClientIP(source) \in Addresses
  BY DEF Source, ClientIP
<1>2. PICK source \in Source :
        \/ Refuse(ClientIP(source))
        \/ Allow(ClientIP(source)) \/ FailOpen(ClientIP(source))
  BY DEF RateLimit
<1>3. QED
  BY <1>1, <1>2 DEF LimiterNext

\* No layer of either hop but RateLimit touches the counters.
LEMMA OthersLeaveIt ==
  ASSUME NEW r \in Requests, NEW h \in Hops,
         \/ Arrive(r) \/ Cors(r) \/ Auth(r) \/ Decode(r) \/ HandlerPanics(r)
         \/ PanicRecovery(r) \/ Create(r) \/ Register(r) \/ Return(r) \/ Deadline(r)
         \/ Recovery(r) \/ Validation(r) \/ Method(r)
         \/ RequestID(r, h) \/ Enter(r, h) \/ Logger(r, h) \/ Leave(r, h) \/ Panic(r, h)
  PROVE  UNCHANGED limiter
BY DEF Arrive, Cors, Auth, Decode, HandlerPanics, PanicRecovery, Create, Register, Return,
       Deadline, Recovery, Validation, Method, RequestID, Enter, Logger, Leave, Panic, Rest

\* A step of the servers is a step of the limiter or leaves it alone.
LEMMA LimiterSteps == [Next]_vars => [LimiterNext]_limiter
<1>1. ASSUME NEW r \in Requests, RateLimit(r) PROVE LimiterNext
  BY <1>1, AskedForAnAddress
<1>2. ASSUME Elsewhere PROVE LimiterNext
  BY <1>2 DEF Elsewhere, LimiterNext
<1>3. "http" \in Hops
  BY DEF Hops
<1>4. QED
  BY <1>1, <1>2, <1>3, OthersLeaveIt DEF Next, vars

\* Http implements the limiter: whatever the layers around it do with a request, answer
\* it early, panic or run into a deadline, its keys only see what RateLimit allows.
LEMMA LimiterImplemented == Spec => LimiterSpec
<1>1. Init => LimiterInit
  BY DEF Init
<1>2. QED
  BY <1>1, LimiterSteps, PTL DEF Spec, LimiterSpec

\* No address is let in more than twice the limit within a window, by the servers as a
\* whole and whatever a request does in its other layers.
THEOREM ServersAreBounded == Spec => []BurstIsBounded
BY LimiterImplemented, BurstsAreBounded, PTL

-----------------------------------------------------------------------------
(* Chains.                                                                 *)

\* Numbers have a least one: what a proof by induction over them comes down to here.
LEMMA Least ==
  ASSUME NEW T \in SUBSET Nat, T # {}
  PROVE  \E n \in T : \A k \in T : n <= k
<1> DEFINE R == OpToRel(<, Nat)
<1>1. \A k, n \in Nat : k < n => <<k, n>> \in R
  BY DEF OpToRel
<1>2. PICK n \in T : \A k \in T : <<k, n>> \notin R
  <2>1. IsWellFoundedOn(R, Nat)
    BY NatLessThanWellFounded
  <2> HIDE DEF R
  <2> QED BY <2>1, WFMin
<1>3. QED
  <2> HIDE DEF R
  <2>1. ASSUME NEW k \in T PROVE n <= k
    <3>1. k \in Nat /\ n \in Nat /\ ~(k < n)
      BY <1>1, <1>2
    <3>2. QED BY <3>1
  <2>2. QED BY <2>1

\* Induction, over a set instead of a predicate.
LEMMA Induct ==
  ASSUME NEW S \in SUBSET Nat, 0 \in S, \A n \in S : n + 1 \in S
  PROVE  S = Nat
<1>1. SUFFICES ASSUME Nat \ S # {} PROVE FALSE
  OBVIOUS
<1>2. PICK n \in Nat \ S : \A k \in Nat \ S : n <= k
  <2>1. Nat \ S \in SUBSET Nat OBVIOUS
  <2>2. QED BY <1>1, <2>1, Least
<1>3. n # 0 /\ n - 1 \in Nat /\ n - 1 \notin Nat \ S
  BY <1>2
<1>4. QED
  BY <1>2, <1>3

\* Chain, which wraps from the last to the first, leaves the first outermost: the layers
\* stand in the order in which they are given.
LEMMA ChainIsIdentity ==
  ASSUME NEW M, NEW m \in Seq(M)
  PROVE  Chain(m) = m
<1> DEFINE L == Len(m)
           Step(g, n) == IF n = 0 THEN <<>> ELSE <<m[L - n + 1]>> \o g[n - 1]
           Rec(g) == g = [n \in 0..L |-> Step(g, n)]
           suffix == [n \in 0..L |-> SubSeq(m, L - n + 1, L)]
           w == CHOOSE g : Rec(g)
<1>0. L \in Nat
  OBVIOUS
<1>1. Rec(suffix)
  <2>1. \A n \in 1..L : SubSeq(m, L - n + 1, L) = <<m[L - n + 1]>> \o SubSeq(m, L - (n - 1) + 1, L)
    <3>1. TAKE n \in 1..L
    <3>2. L - n + 1 \in 1..L + 1 /\ L - (n - 1) + 1 = L - n + 2 /\ L - n + 1 <= L
      BY <1>0
    <3>. DEFINE a == SubSeq(m, L - n + 1, L)
               b == <<m[L - n + 1]>> \o SubSeq(m, L - n + 2, L)
    <3>3. a \in Seq(M) /\ b \in Seq(M) /\ Len(a) = n /\ Len(b) = n
      BY <1>0
    <3>4. \A i \in 1..n : a[i] = b[i]
      BY <1>0
    <3>5. a = b
      BY <3>3, <3>4, SeqEqual
    <3>6. QED BY <3>2, <3>5
  <2>2. SubSeq(m, L + 1, L) = <<>>
    BY <1>0, SubSeqEmpty
  <2>3. ASSUME NEW n \in 0..L PROVE suffix[n] = Step(suffix, n)
    <3>1. CASE n = 0
      BY <3>1, <2>2, <1>0
    <3>2. CASE n # 0
      <4>1. n \in 1..L /\ n - 1 \in 0..L
        BY <3>2, <1>0
      <4> QED
        BY <4>1, <3>2, <2>1
    <3>3. QED
      BY <3>1, <3>2
  <2>4. QED BY <2>3
<1>2. Rec(w)
  BY <1>1
<1>3. w[L] = SubSeq(m, 1, L)
  <2> HIDE DEF w
  <2> DEFINE S == {n \in Nat : n <= L => w[n] = suffix[n]}
  <2>1. 0 \in S
    BY <1>1, <1>2, <1>0
  <2>2. ASSUME NEW n \in S PROVE n + 1 \in S
    <3>1. CASE n + 1 <= L
      <4>1. w[n] = suffix[n] /\ n + 1 \in 0..L /\ n + 1 # 0 /\ (n + 1) - 1 = n
        BY <3>1, <1>0
      <4> HIDE DEF suffix
      <4>2. w[n + 1] = Step(w, n + 1) /\ suffix[n + 1] = Step(suffix, n + 1)
        BY <4>1, <1>1, <1>2
      <4>3. w[n + 1] = suffix[n + 1]
        BY <4>1, <4>2
      <4>4. QED
        BY <4>3
    <3>2. QED BY <3>1
  <2>3. S = Nat
    <3>1. S \in SUBSET Nat
      OBVIOUS
    <3> HIDE DEF S
    <3> QED BY <3>1, <2>1, <2>2, Induct
  <2>4. L \in S
    BY <2>3, <1>0
  <2>5. QED BY <2>4, <1>0
<1>4. Chain(m) = w[L]
  BY DEF Chain
<1>5. QED BY <1>3, <1>4, SubSeqFull

-----------------------------------------------------------------------------
(* Where a request is, and what that says about it.                        *)

\* The layers around the handler of r, and how many there are.
Stack(r) == Routes[req[r].route]
Depth(r) == Len(Stack(r))

\* Where the request can be on its way in, waiting, out, or unwinding towards a recovery
\* that is still in front of the access line.
OnItsWay(r) ==
  /\ dir[r]["http"] \in {"off", "over"} => at[r]["http"] = 0
  /\ dir[r]["http"] = "in" => at[r]["http"] \in 1..Depth(r) /\ dir[r]["rpc"] = "off"
  /\ dir[r]["http"] = "wait" => at[r]["http"] = Depth(r) /\ dir[r]["rpc"] # "off"
  /\ dir[r]["http"] = "out" => at[r]["http"] \in 1..Depth(r)
  /\ dir[r]["http"] = "panic" =>
       /\ at[r]["http"] \in 3..Depth(r) - 1
       /\ \E k \in 3..at[r]["http"] : Stack(r)[k] = "PanicRecovery"
  /\ dir[r]["rpc"] # "wait"
  /\ dir[r]["rpc"] \in {"off", "over"} => at[r]["rpc"] = 0
  /\ dir[r]["rpc"] = "in" => at[r]["rpc"] \in 1..5
  /\ dir[r]["rpc"] = "out" => at[r]["rpc"] \in 1..4
  /\ dir[r]["rpc"] = "panic" => at[r]["rpc"] \in 3..4
  /\ dir[r]["rpc"] = "off" <=> method[r] = "none"

\* A request has a status as soon as it is on its way out, and Logger has seen it.
Answered(r) ==
  /\ wire[r] = 0 <=> dir[r]["http"] \notin {"out", "over"}
  /\ dir[r]["http"] = "out" /\ at[r]["http"] > 1 => rec[r] = wire[r]

\* On its way out past the access line of h.
Logged(r, h) == dir[r][h] = "over" \/ (dir[r][h] = "out" /\ at[r][h] = 1)

\* One access line for each call, written behind Logger.
Recorded(r) ==
  /\ IF Logged(r, "http")
     THEN Len(lines[r]["http"]) = 1 /\ lines[r]["http"][1].status = wire[r]
     ELSE lines[r]["http"] = <<>>
  /\ Len(lines[r]["rpc"]) =
       (IF method[r] = "Create" THEN 1 ELSE 0) + (IF Logged(r, "rpc") THEN 1 ELSE 0)
  /\ Logged(r, "rpc") => lines[r]["rpc"][Len(lines[r]["rpc"])].status = code[r]

\* In h and past its request id layer.
Named(r, h) == dir[r][h] # "off" /\ ~(dir[r][h] = "in" /\ at[r][h] = 1)

\* Whatever is said about the request is said under the id in the answer's header.
Traced(r) ==
  /\ header[r] \in {"none", "http", "given"}
  /\ req[r].id = "given" => header[r] # "http"
  /\ IF Named(r, "http") THEN header[r] # "none" /\ ctx[r]["http"] = header[r]
                         ELSE header[r] = "none" /\ others[r] = {}
  /\ dir[r]["rpc"] # "off" => Named(r, "http")
  /\ Named(r, "rpc") => ctx[r]["rpc"] = header[r]
  /\ others[r] \subseteq {header[r]}
  /\ \A h \in Hops : \A i \in 1..Len(lines[r][h]) : lines[r][h][i].id = header[r]

Good(r) == OnItsWay(r) /\ Answered(r) /\ Recorded(r) /\ Traced(r)

Directions == {"off", "in", "wait", "out", "panic", "over"}

AccessLines ==
  [Requests -> [http : Seq([id : Ids, status : Statuses]),
                rpc : Seq([id : Ids, status : GrpcCodes])]]

\* The part of TypeOK that is about the requests.
Shapes ==
  /\ req \in [Requests -> Request]
  /\ at \in [Requests -> [Hops -> Nat]]
  /\ dir \in [Requests -> [Hops -> Directions]]
  /\ ctx \in [Requests -> [Hops -> Ids]]
  /\ method \in [Requests -> {"none", "ExistsByEmail", "Create"}]
  /\ code \in [Requests -> GrpcCodes]
  /\ lines \in AccessLines
  /\ others \in [Requests -> SUBSET Ids]
  /\ rec \in [Requests -> Statuses]
  /\ wire \in [Requests -> Statuses \cup {0}]
  /\ header \in [Requests -> Ids]

\* Nothing happens to the other requests.
Apart(r) ==
  \A q \in Requests \ {r} :
    /\ req'[q] = req[q] /\ at'[q] = at[q] /\ dir'[q] = dir[q] /\ ctx'[q] = ctx[q]
    /\ method'[q] = method[q] /\ code'[q] = code[q] /\ lines'[q] = lines[q]
    /\ others'[q] = others[q] /\ rec'[q] = rec[q] /\ wire'[q] = wire[q]
    /\ header'[q] = header[q]

\* What a step of request r has to establish.
Kept(r) == Shapes' /\ Good(r)' /\ Apart(r)

-----------------------------------------------------------------------------
(* The layers around a handler.                                            *)

\* What the proofs use of the layers around a handler: the id and the access line come
\* first, the handler last, and a recovery stands between.
WellStacked(s) ==
  /\ Len(s) \in Nat /\ Len(s) >= 4 /\ DOMAIN s = 1..Len(s)
  /\ s[1] = "RequestID" /\ s[2] = "Logger"
  /\ \A i \in 3..Len(s) : s[i] \notin {"RequestID", "Logger"}
  /\ \A i \in 1..Len(s) : s[i] \in {"RequestID", "Logger", "Cors", "RateLimit",
                                    "PanicRecovery", "Auth", "Create", "Register"}
  /\ \A i \in 1..Len(s) : s[i] \in {"Register", "Create"} <=> i = Len(s)
  /\ \E k \in 3..Len(s) - 1 : s[k] = "PanicRecovery"

\* They do so on every route, whatever the routers give to Chain.
LEMMA Routed ==
  ASSUME NEW what \in Request
  PROVE  WellStacked(Routes[what.route])
<1> DEFINE s == Routes[what.route]
           G == {"RequestID", "Logger", "Cors", "RateLimit", "PanicRecovery"}
           n == Len(Global)
<1>1. Global \in Seq(G) /\ n \in Nat /\ n > 2 /\ Global[1] = "RequestID" /\ Global[2] = "Logger"
      /\ (\A i \in 3..n : Global[i] \notin {"RequestID", "Logger"})
      /\ DOMAIN Global = 1..n
  BY GlobalAssumption
<1>2. \A i \in 1..n : Global[i] \in G
  BY <1>1
<1>3. PICK k \in 3..n : Global[k] = "PanicRecovery"
  <2>1. PICK k \in 1..n : Global[k] = "PanicRecovery"
    BY <1>1, GlobalAssumption
  <2>2. k # 1 /\ k # 2
    BY <1>1, <2>1
  <2>3. QED
    BY <1>1, <2>1, <2>2
<1>4. Chain(Global) = Global
  BY <1>1, ChainIsIdentity
<1> DEFINE A == Global \o <<"Register">>
           B == Global \o <<"Auth", "Create">>
<1>5. s = A \/ s = B
  BY <1>4 DEF Routes, Request
<1> HIDE DEF n, s
<1>6. /\ Len(A) = n + 1 /\ DOMAIN A = 1..n + 1
      /\ (\A i \in 1..n : A[i] = Global[i]) /\ A[n + 1] = "Register"
  <2>1. <<"Register">> \in Seq({"Register"}) /\ Len(<<"Register">>) = 1
    OBVIOUS
  <2>2. QED
    BY <1>1, <2>1 DEF n
<1>7. /\ Len(B) = n + 2 /\ DOMAIN B = 1..n + 2
      /\ (\A i \in 1..n : B[i] = Global[i]) /\ B[n + 1] = "Auth" /\ B[n + 2] = "Create"
  <2> DEFINE two == <<"Auth", "Create">>
  <2>1. two \in Seq({"Auth", "Create"}) /\ Len(two) = 2 /\ two[1] = "Auth" /\ two[2] = "Create"
    OBVIOUS
  <2> HIDE DEF two
  <2>2. QED
    BY <1>1, <2>1 DEF n
<1> HIDE DEF A, B
<1>8. ASSUME s = A PROVE WellStacked(s)
  <2>1. Len(s) = n + 1
    BY <1>6, <1>8
  <2>2. \A i \in 1..n + 1 : i \in 1..n \/ i = n + 1
    BY <1>1
  <2>3. QED
    BY <1>1, <1>2, <1>3, <1>6, <1>8, <2>1, <2>2 DEF WellStacked
<1>9. ASSUME s = B PROVE WellStacked(s)
  <2>1. Len(s) = n + 2
    BY <1>7, <1>9
  <2>2. \A i \in 1..n + 2 : i \in 1..n \/ i = n + 1 \/ i = n + 2
    BY <1>1
  <2>3. QED
    BY <1>1, <1>2, <1>3, <1>7, <1>9, <2>1, <2>2 DEF WellStacked
<1>10. QED
  BY <1>5, <1>8, <1>9 DEF s

\* So do they on the route of a request.
LEMMA Stacked ==
  ASSUME NEW r \in Requests, req[r] \in Request
  PROVE  /\ Depth(r) \in Nat /\ Depth(r) >= 4 /\ DOMAIN Stack(r) = 1..Depth(r)
         /\ Stack(r)[1] = "RequestID" /\ Stack(r)[2] = "Logger"
         /\ \A i \in 3..Depth(r) : Stack(r)[i] \notin {"RequestID", "Logger"}
         /\ \A i \in 1..Depth(r) :
              Stack(r)[i] \in {"RequestID", "Logger", "Cors", "RateLimit", "PanicRecovery",
                               "Auth", "Create", "Register"}
         /\ \A i \in 1..Depth(r) : Stack(r)[i] \in {"Register", "Create"} <=> i = Depth(r)
         /\ \E k \in 3..Depth(r) - 1 : Stack(r)[k] = "PanicRecovery"
BY Routed DEF Stack, Depth, WellStacked

\* The layer a request is in.
LEMMA HttpLayer ==
  ASSUME NEW r \in Requests, req[r] \in Request, at[r]["http"] \in Nat
  PROVE  Layer(r, "http") = IF at[r]["http"] \in 1..Depth(r) THEN Stack(r)[at[r]["http"]]
                            ELSE "none"
BY Stacked DEF Layer, Layers, Stack, Depth

\* The layer a call is in.
LEMMA RpcLayer ==
  ASSUME NEW r \in Requests, at[r]["rpc"] \in Nat
  PROVE  /\ Layer(r, "rpc") = "RequestID" <=> at[r]["rpc"] = 1
         /\ Layer(r, "rpc") = "Logger" <=> at[r]["rpc"] = 2
         /\ Layer(r, "rpc") = "Recovery" <=> at[r]["rpc"] = 3
         /\ Layer(r, "rpc") = "Validation" <=> at[r]["rpc"] = 4
         /\ Layer(r, "rpc") = "Method" <=> at[r]["rpc"] = 5
         /\ Layer(r, "rpc") # "PanicRecovery"
<1> DEFINE four == <<"RequestID", "Logger", "Recovery", "Validation">>
           one == <<"Method">>
           five == four \o one
<1>1. Layers(r, "rpc") = five
  BY Zenon DEF Layers, Interceptors
<1>2. /\ DOMAIN five = 1..5 /\ five[1] = "RequestID" /\ five[2] = "Logger"
      /\ five[3] = "Recovery" /\ five[4] = "Validation" /\ five[5] = "Method"
  <2> DEFINE M == {"RequestID", "Logger", "Recovery", "Validation", "Method"}
  <2>1. /\ four \in Seq(M) /\ Len(four) = 4
        /\ four[1] = "RequestID" /\ four[2] = "Logger" /\ four[3] = "Recovery"
        /\ four[4] = "Validation"
    OBVIOUS
  <2>2. one \in Seq(M) /\ Len(one) = 1 /\ one[1] = "Method"
    OBVIOUS
  <2> HIDE DEF four, one, M
  <2>3. /\ five \in Seq(M) /\ Len(five) = 5
        /\ \A i \in 1..5 : five[i] = IF i <= 4 THEN four[i] ELSE one[i - 4]
    <3>1. /\ four \o one \in Seq(M) /\ Len(four \o one) = Len(four) + Len(one)
          /\ \A i \in 1..Len(four) + Len(one) :
               (four \o one)[i] = IF i <= Len(four) THEN four[i] ELSE one[i - Len(four)]
      BY <2>1, <2>2, ConcatProperties
    <3>2. QED
      BY <2>1, <2>2, <3>1
  <2>4. QED
    BY <2>1, <2>2, <2>3
<1> HIDE DEF five
<1>3. CASE at[r]["rpc"] \in 1..5
  <2>1. Layer(r, "rpc") = five[at[r]["rpc"]]
    BY <1>1, <1>2, <1>3 DEF Layer
  <2>2. \/ at[r]["rpc"] = 1 \/ at[r]["rpc"] = 2 \/ at[r]["rpc"] = 3 \/ at[r]["rpc"] = 4
        \/ at[r]["rpc"] = 5
    BY <1>3
  <2>3. QED
    BY <1>2, <2>1, <2>2
<1>4. CASE at[r]["rpc"] \notin 1..5
  <2>1. Layer(r, "rpc") = "none"
    BY <1>1, <1>2, <1>4 DEF Layer
  <2>2. QED
    BY <2>1, <1>4
<1>5. QED
  BY <1>3, <1>4
-----------------------------------------------------------------------------
(* Parts of steps.                                                         *)

\* A move is one of a single request in a single hop.
LEMMA Moved ==
  ASSUME Shapes, NEW r \in Requests, NEW h \in Hops, NEW to \in Nat, NEW way \in Directions,
         Move(r, h, to, way)
  PROVE  /\ at' \in [Requests -> [Hops -> Nat]] /\ dir' \in [Requests -> [Hops -> Directions]]
         /\ at'[r][h] = to /\ dir'[r][h] = way
         /\ \A g \in Hops \ {h} : at'[r][g] = at[r][g] /\ dir'[r][g] = dir[r][g]
         /\ \A q \in Requests \ {r} : at'[q] = at[q] /\ dir'[q] = dir[q]
BY DEF Shapes, Move

\* Logger sees a status that is written behind it, and the client the first one.
LEMMA Wrote ==
  ASSUME Shapes, NEW r \in Requests, NEW status \in Statuses, Write(r, status),
         wire[r] = 0, at[r]["http"] >= 3
  PROVE  /\ rec' \in [Requests -> Statuses] /\ wire' \in [Requests -> Statuses \cup {0}]
         /\ header' = header
         /\ rec'[r] = status /\ wire'[r] = status /\ status # 0
         /\ \A q \in Requests \ {r} : rec'[q] = rec[q] /\ wire'[q] = wire[q]
<1>1. req[r] \in Request /\ at[r]["http"] \in Nat
  BY DEF Shapes, Hops
<1>2. 2 \in 1..at[r]["http"] - 1 /\ Layers(r, "http")[2] = "Logger"
  BY <1>1, Stacked DEF Layers, Stack
<1>3. rec' = [rec EXCEPT ![r] = status] /\ wire' = [wire EXCEPT ![r] = status]
  BY <1>2 DEF Write, Record
<1>4. status # 0
  BY DEF Statuses
<1>5. QED
  BY <1>3, <1>4 DEF Shapes, Write

\* An error is answered with one of the statuses, and logged if it is internal.
LEMMA Erred ==
  ASSUME NEW r \in Requests,
         NEW err \in {"panic", "unauthorized", "invalid", "conflict", "other", "internal",
                  "notfound"},
         Error(r, err)
  PROVE  \E status \in Statuses :
           Write(r, status) /\ (UNCHANGED others \/ Mention(r, "http"))
<1>1. HttpStatus(From(err)) \in Statuses
  BY DEF HttpStatus, From, Codes, Statuses
<1>2. QED
  BY <1>1 DEF Error

\* Said under the id of the hop's context.
LEMMA Mentioned ==
  ASSUME Shapes, NEW r \in Requests, NEW h \in Hops, UNCHANGED others \/ Mention(r, h)
  PROVE  /\ others' \in [Requests -> SUBSET Ids]
         /\ others'[r] \subseteq others[r] \cup {ctx[r][h]}
         /\ \A q \in Requests \ {r} : others'[q] = others[q]
<1>1. ctx[r][h] \in Ids /\ others \in [Requests -> SUBSET Ids]
  BY DEF Shapes
<1>2. CASE Mention(r, h)
  <2>1. others' = [others EXCEPT ![r] = others[r] \cup {ctx[r][h]}]
    BY <1>2 DEF Mention, FromContext
  <2>2. others[r] \cup {ctx[r][h]} \in SUBSET Ids
    BY <1>1
  <2>3. QED
    BY <1>1, <2>1, <2>2
<1>3. CASE UNCHANGED others
  BY <1>1, <1>3
<1>4. QED
  BY <1>2, <1>3

\* What is said of a request stays true while nothing happens to it.
LEMMA Undisturbed ==
  ASSUME NEW r \in Requests, \A q \in Requests : Good(q), Kept(r)
  PROVE  \A q \in Requests : Good(q)'
<1>1. ASSUME NEW q \in Requests \ {r} PROVE Good(q)'
  <2>1. Good(q)
    OBVIOUS
  <2>2. Depth(q)' = Depth(q) /\ Stack(q)' = Stack(q)
    BY DEF Kept, Apart, Depth, Stack
  <2>3. /\ req'[q] = req[q] /\ at'[q] = at[q] /\ dir'[q] = dir[q] /\ ctx'[q] = ctx[q]
        /\ method'[q] = method[q] /\ code'[q] = code[q] /\ lines'[q] = lines[q]
        /\ others'[q] = others[q] /\ rec'[q] = rec[q] /\ wire'[q] = wire[q]
        /\ header'[q] = header[q]
    BY DEF Kept, Apart
  <2>4. OnItsWay(q)'
    BY <2>1, <2>2, <2>3 DEF Good, OnItsWay
  <2>5. Answered(q)'
    BY <2>1, <2>3 DEF Good, Answered
  <2>6. Recorded(q)'
    BY <2>1, <2>3 DEF Good, Recorded, Logged
  <2>7. Traced(q)'
    BY <2>1, <2>3 DEF Good, Traced, Named
  <2>8. QED
    BY <2>4, <2>5, <2>6, <2>7 DEF Good
<1>2. QED
  BY <1>1 DEF Kept
-----------------------------------------------------------------------------
(* Steps of the HTTP hop.                                                  *)

\* A layer behind the request id passes the request on.
LEMMA HttpPasses ==
  ASSUME Shapes, NEW r \in Requests, Good(r), dir[r]["http"] = "in", at[r]["http"] > 1,
         at[r]["http"] # Depth(r), Pass(r, "http"),
         UNCHANGED <<req, method, code, ctx, lines, others, answer>>
  PROVE  Kept(r)
<1>0. at[r]["http"] \in Nat /\ req[r] \in Request /\ "http" \in Hops /\ "rpc" \in Hops
  BY DEF Shapes, Hops
<1>1. /\ at' \in [Requests -> [Hops -> Nat]] /\ dir' \in [Requests -> [Hops -> Directions]]
      /\ at'[r]["http"] = at[r]["http"] + 1 /\ dir'[r]["http"] = "in"
      /\ at'[r]["rpc"] = at[r]["rpc"] /\ dir'[r]["rpc"] = dir[r]["rpc"]
      /\ \A q \in Requests \ {r} : at'[q] = at[q] /\ dir'[q] = dir[q]
  BY <1>0, Moved DEF Pass, Directions
<1>2. Depth(r)' = Depth(r) /\ Depth(r) \in Nat
  BY <1>0, Stacked DEF Depth, Stack
<1>3. Shapes' /\ Apart(r)
  BY <1>1 DEF Shapes, Apart, answer
<1>4. OnItsWay(r)'
  <2>1. at[r]["http"] + 1 \in 1..Depth(r) /\ dir[r]["rpc"] = "off"
    BY <1>0, <1>2 DEF Good, OnItsWay
  <2>2. QED
    BY <1>1, <1>2, <2>1 DEF Good, OnItsWay
<1>5. Answered(r)' /\ Recorded(r)'
  BY <1>0, <1>1 DEF Good, Answered, Recorded, Logged, answer
<1>6. Traced(r)'
  BY <1>0, <1>1 DEF Good, Traced, Named, answer
<1>7. QED
  BY <1>3, <1>4, <1>5, <1>6 DEF Kept, Good

\* A layer behind the access line answers, in the place of what is behind it or with what
\* came back from there.
LEMMA HttpAnswers ==
  ASSUME Shapes, NEW r \in Requests, Good(r), dir[r]["http"] \in {"in", "wait", "panic"},
         at[r]["http"] >= 3, NEW status \in Statuses, Write(r, status), Back(r, "http"),
         UNCHANGED others \/ Mention(r, "http"), UNCHANGED <<req, method, code, ctx, lines>>
  PROVE  Kept(r)
<1>0. at[r]["http"] \in Nat /\ req[r] \in Request /\ "http" \in Hops /\ "rpc" \in Hops
  BY DEF Shapes, Hops
<1>1. /\ at' \in [Requests -> [Hops -> Nat]] /\ dir' \in [Requests -> [Hops -> Directions]]
      /\ at'[r]["http"] = at[r]["http"] - 1 /\ dir'[r]["http"] = "out"
      /\ at'[r]["rpc"] = at[r]["rpc"] /\ dir'[r]["rpc"] = dir[r]["rpc"]
      /\ \A q \in Requests \ {r} : at'[q] = at[q] /\ dir'[q] = dir[q]
  <2>1. at[r]["http"] - 1 \in Nat /\ Move(r, "http", at[r]["http"] - 1, "out")
    BY <1>0 DEF Back
  <2>2. QED
    BY <1>0, <2>1, Moved DEF Directions
<1>2. Depth(r)' = Depth(r) /\ Depth(r) \in Nat /\ at[r]["http"] <= Depth(r)
  BY <1>0, Stacked DEF Depth, Stack, Good, OnItsWay
<1>3. wire[r] = 0
  BY DEF Good, Answered
<1>4. /\ rec' \in [Requests -> Statuses] /\ wire' \in [Requests -> Statuses \cup {0}]
      /\ header' = header /\ rec'[r] = status /\ wire'[r] = status /\ status # 0
      /\ \A q \in Requests \ {r} : rec'[q] = rec[q] /\ wire'[q] = wire[q]
  BY <1>0, <1>3, Wrote
<1>5. /\ others' \in [Requests -> SUBSET Ids]
      /\ others'[r] \subseteq others[r] \cup {ctx[r]["http"]}
      /\ \A q \in Requests \ {r} : others'[q] = others[q]
  BY <1>0, Mentioned
<1>6. Shapes' /\ Apart(r)
  BY <1>1, <1>4, <1>5 DEF Shapes, Apart
<1>7. OnItsWay(r)'
  BY <1>0, <1>1, <1>2 DEF Good, OnItsWay
<1>8. Answered(r)' /\ Recorded(r)'
  BY <1>0, <1>1, <1>4 DEF Good, Answered, Recorded, Logged
<1>9. Traced(r)'
  <2>1. Named(r, "http") /\ Named(r, "http")'
    BY <1>0, <1>1 DEF Named
  <2>2. Named(r, "rpc")' <=> Named(r, "rpc")
    BY <1>1 DEF Named
  <2>3. ctx[r]["http"] = header[r] /\ others[r] \subseteq {header[r]}
    BY <2>1 DEF Good, Traced
  <2>4. others'[r] \subseteq {header'[r]}
    BY <1>4, <1>5, <2>3
  <2>5. QED
    BY <1>1, <1>4, <2>1, <2>2, <2>4 DEF Good, Traced
<1>10. QED
  BY <1>6, <1>7, <1>8, <1>9 DEF Kept, Good

\* A panic of the handler, or on its way to the recovery.
LEMMA HttpUnwinds ==
  ASSUME Shapes, NEW r \in Requests, Good(r), Unwind(r, "http"),
         \/ dir[r]["http"] = "in" /\ at[r]["http"] = Depth(r)
         \/ dir[r]["http"] = "panic" /\ Layer(r, "http") # "PanicRecovery",
         UNCHANGED <<req, method, code, ctx, lines, others, answer>>
  PROVE  Kept(r)
<1>0. at[r]["http"] \in Nat /\ req[r] \in Request /\ "http" \in Hops /\ "rpc" \in Hops
  BY DEF Shapes, Hops
<1>2. Depth(r)' = Depth(r) /\ Stack(r)' = Stack(r) /\ Depth(r) \in Nat /\ Depth(r) >= 4
  BY <1>0, Stacked DEF Depth, Stack
<1>3. /\ at[r]["http"] \in 4..Depth(r)
      /\ \E k \in 3..at[r]["http"] - 1 : Stack(r)[k] = "PanicRecovery"
  <2>1. CASE dir[r]["http"] = "in" /\ at[r]["http"] = Depth(r)
    BY <1>0, <1>2, <2>1, Stacked
  <2>2. CASE dir[r]["http"] = "panic" /\ Layer(r, "http") # "PanicRecovery"
    <3>1. /\ at[r]["http"] \in 3..Depth(r) - 1
          /\ \E k \in 3..at[r]["http"] : Stack(r)[k] = "PanicRecovery"
      BY <2>2 DEF Good, OnItsWay
    <3>2. Stack(r)[at[r]["http"]] # "PanicRecovery"
      BY <1>0, <1>2, <2>2, <3>1, HttpLayer
    <3>3. QED
      BY <1>0, <1>2, <3>1, <3>2
  <2>3. QED
    BY <2>1, <2>2
<1>1. /\ at' \in [Requests -> [Hops -> Nat]] /\ dir' \in [Requests -> [Hops -> Directions]]
      /\ at'[r]["http"] = at[r]["http"] - 1 /\ dir'[r]["http"] = "panic"
      /\ at'[r]["rpc"] = at[r]["rpc"] /\ dir'[r]["rpc"] = dir[r]["rpc"]
      /\ \A q \in Requests \ {r} : at'[q] = at[q] /\ dir'[q] = dir[q]
  <2>1. at[r]["http"] - 1 \in Nat /\ Move(r, "http", at[r]["http"] - 1, "panic")
    BY <1>0, <1>2, <1>3 DEF Unwind
  <2>2. QED
    BY <1>0, <2>1, Moved DEF Directions
<1>4. Shapes' /\ Apart(r)
  BY <1>1 DEF Shapes, Apart, answer
<1>5. OnItsWay(r)'
  <2>1. dir[r]["http"] = "panic" \/ dir[r]["http"] = "in"
    OBVIOUS
  <2>2. /\ at'[r]["http"] \in 3..Depth(r)' - 1
        /\ \E k \in 3..at'[r]["http"] : Stack(r)'[k] = "PanicRecovery"
    BY <1>0, <1>1, <1>2, <1>3
  <2>3. QED
    BY <1>1, <2>1, <2>2 DEF Good, OnItsWay
<1>6. Answered(r)' /\ Recorded(r)'
  BY <1>0, <1>1, <1>2, <1>3 DEF Good, Answered, Recorded, Logged, answer
<1>7. Traced(r)'
  <2>1. Named(r, "http") /\ Named(r, "http")' /\ (Named(r, "rpc")' <=> Named(r, "rpc"))
    BY <1>0, <1>1, <1>2, <1>3 DEF Named
  <2>2. QED
    BY <1>1, <2>1 DEF Good, Traced, answer
<1>8. QED
  BY <1>4, <1>5, <1>6, <1>7 DEF Kept, Good

\* An answer passes a layer that is not the access line.
LEMMA HttpLeaves ==
  ASSUME Shapes, NEW r \in Requests, Good(r), dir[r]["http"] = "out", Layer(r, "http") # "Logger",
         Back(r, "http"), UNCHANGED <<req, method, code, ctx, lines, others, answer>>
  PROVE  Kept(r)
<1>0. at[r]["http"] \in Nat /\ req[r] \in Request /\ "http" \in Hops /\ "rpc" \in Hops
  BY DEF Shapes, Hops
<1>1. Depth(r)' = Depth(r) /\ Depth(r) \in Nat /\ at[r]["http"] \in 1..Depth(r)
  BY <1>0, Stacked DEF Depth, Stack, Good, OnItsWay
<1>2. at[r]["http"] # 2
  BY <1>0, <1>1, HttpLayer, Stacked
<1> DEFINE way == IF at[r]["http"] = 1 THEN "over" ELSE "out"
<1>3. /\ at' \in [Requests -> [Hops -> Nat]] /\ dir' \in [Requests -> [Hops -> Directions]]
      /\ at'[r]["http"] = at[r]["http"] - 1 /\ dir'[r]["http"] = way
      /\ at'[r]["rpc"] = at[r]["rpc"] /\ dir'[r]["rpc"] = dir[r]["rpc"]
      /\ \A q \in Requests \ {r} : at'[q] = at[q] /\ dir'[q] = dir[q]
  <2>1. at[r]["http"] - 1 \in Nat /\ Move(r, "http", at[r]["http"] - 1, way)
    BY <1>0, <1>1 DEF Back
  <2>2. way \in Directions
    BY DEF Directions
  <2> HIDE DEF way
  <2>3. QED
    BY <1>0, <2>1, <2>2, Moved
<1>4. Shapes' /\ Apart(r)
  BY <1>3 DEF Shapes, Apart, answer
<1>5. OnItsWay(r)'
  BY <1>1, <1>3 DEF Good, OnItsWay
<1>6. Answered(r)' /\ Recorded(r)'
  BY <1>1, <1>2, <1>3 DEF Good, Answered, Recorded, Logged, answer
<1>7. Traced(r)'
  BY <1>0, <1>3 DEF Good, Traced, Named, answer
<1>8. QED
  BY <1>4, <1>5, <1>6, <1>7 DEF Kept, Good

\* What writing a line does.
Lengthens(r, h, status) ==
  /\ lines' \in AccessLines
  /\ Len(lines[r][h]) \in Nat /\ Len(lines'[r][h]) = Len(lines[r][h]) + 1
  /\ \A i \in 1..Len(lines[r][h]) : lines'[r][h][i] = lines[r][h][i]
  /\ lines'[r][h][Len(lines'[r][h])] = [id |-> ctx[r][h], status |-> status]
  /\ \A g \in Hops \ {h} : lines'[r][g] = lines[r][g]
  /\ \A q \in Requests \ {r} : lines'[q] = lines[q]

LEMMA Lined ==
  ASSUME Shapes, NEW r \in Requests, NEW h \in Hops, NEW status, Log(r, h, status),
         h = "http" => status \in Statuses, h = "rpc" => status \in GrpcCodes
  PROVE  Lengthens(r, h, status)
<1> DEFINE S == [id : Ids, status : Statuses]
           T == [id : Ids, status : GrpcCodes]
           line == [id |-> ctx[r][h], status |-> status]
           new == Append(lines[r][h], line)
<1>1. lines[r] \in [http : Seq(S), rpc : Seq(T)] /\ ctx[r][h] \in Ids
  BY DEF Shapes, AccessLines
<1>2. lines[r]["http"] \in Seq(S) /\ lines[r]["rpc"] \in Seq(T)
  BY <1>1
<1>3. lines' = [lines EXCEPT ![r][h] = new]
  BY DEF Log, FromContext
<1>4. CASE h = "http"
  <2>1. line \in S
    BY <1>1, <1>4
  <2> HIDE DEF S, T, line
  <2>2. /\ new \in Seq(S) /\ Len(new) = Len(lines[r][h]) + 1 /\ new[Len(new)] = line
        /\ \A i \in 1..Len(lines[r][h]) : new[i] = lines[r][h][i]
    BY <1>2, <1>4, <2>1, AppendProperties
  <2> HIDE DEF new
  <2>3. /\ lines'[r][h] = new /\ \A g \in Hops \ {h} : lines'[r][g] = lines[r][g]
        /\ \A q \in Requests \ {r} : lines'[q] = lines[q]
        /\ lines' \in AccessLines
    BY <1>1, <1>3, <1>4, <2>2 DEF Shapes, AccessLines, Hops, S, T
  <2>4. Len(lines[r][h]) \in Nat
    BY <1>2, <1>4
  <2>5. /\ Len(lines'[r][h]) = Len(lines[r][h]) + 1 /\ lines'[r][h][Len(lines'[r][h])] = line
        /\ \A i \in 1..Len(lines[r][h]) : lines'[r][h][i] = lines[r][h][i]
    BY <2>2, <2>3
  <2>6. QED
    BY <2>3, <2>4, <2>5, Zenon DEF Lengthens, line
<1>5. CASE h = "rpc"
  <2>1. line \in T
    BY <1>1, <1>5
  <2> HIDE DEF S, T, line
  <2>2. /\ new \in Seq(T) /\ Len(new) = Len(lines[r][h]) + 1 /\ new[Len(new)] = line
        /\ \A i \in 1..Len(lines[r][h]) : new[i] = lines[r][h][i]
    BY <1>2, <1>5, <2>1, AppendProperties
  <2> HIDE DEF new
  <2>3. /\ lines'[r][h] = new /\ \A g \in Hops \ {h} : lines'[r][g] = lines[r][g]
        /\ \A q \in Requests \ {r} : lines'[q] = lines[q]
        /\ lines' \in AccessLines
    BY <1>1, <1>3, <1>5, <2>2 DEF Shapes, AccessLines, Hops, S, T
  <2>4. Len(lines[r][h]) \in Nat
    BY <1>2, <1>5
  <2>5. /\ Len(lines'[r][h]) = Len(lines[r][h]) + 1 /\ lines'[r][h][Len(lines'[r][h])] = line
        /\ \A i \in 1..Len(lines[r][h]) : lines'[r][h][i] = lines[r][h][i]
    BY <2>2, <2>3
  <2>6. QED
    BY <2>3, <2>4, <2>5, Zenon DEF Lengthens, line
<1>6. QED
  BY <1>4, <1>5 DEF Hops

\* The access line of the HTTP hop, with the status that was sent.
LEMMA HttpLogs ==
  ASSUME Shapes, NEW r \in Requests, Good(r), Logger(r, "http")
  PROVE  Kept(r)
<1>0. at[r]["http"] \in Nat /\ req[r] \in Request /\ "http" \in Hops /\ "rpc" \in Hops
      /\ rec[r] \in Statuses
  BY DEF Shapes, Hops
<1>1. Depth(r)' = Depth(r) /\ Depth(r) \in Nat /\ Depth(r) >= 4 /\ dir[r]["http"] = "out"
  BY <1>0, Stacked DEF Depth, Stack, Logger, In, Rest
<1>2. at[r]["http"] = 2
  BY <1>0, <1>1, HttpLayer, Stacked DEF Logger, In, Good, OnItsWay
<1>3. /\ at' \in [Requests -> [Hops -> Nat]] /\ dir' \in [Requests -> [Hops -> Directions]]
      /\ at'[r]["http"] = 1 /\ dir'[r]["http"] = "out"
      /\ at'[r]["rpc"] = at[r]["rpc"] /\ dir'[r]["rpc"] = dir[r]["rpc"]
      /\ \A q \in Requests \ {r} : at'[q] = at[q] /\ dir'[q] = dir[q]
  <2>1. Move(r, "http", 1, "out")
    BY <1>2 DEF Logger, Back
  <2>2. QED
    BY <1>0, <2>1, Moved DEF Directions
<1>4. Log(r, "http", rec[r])
  BY DEF Logger
<1>5. lines[r]["http"] = <<>> /\ rec[r] = wire[r] /\ ctx[r]["http"] = header[r]
  BY <1>1, <1>2 DEF Good, Recorded, Logged, Answered, Traced, Named
<1>6. /\ lines' \in AccessLines /\ Len(lines'[r]["http"]) = 1
      /\ lines'[r]["http"][1] = [id |-> header[r], status |-> wire[r]]
      /\ lines'[r]["rpc"] = lines[r]["rpc"]
      /\ \A q \in Requests \ {r} : lines'[q] = lines[q]
  <2>1. Lengthens(r, "http", rec[r])
    BY <1>0, <1>4, Lined
  <2>2. Len(lines[r]["http"]) = 0
    BY <1>5
  <2>3. QED
    BY <1>0, <1>5, <2>1, <2>2 DEF Lengthens
<1>7. UNCHANGED <<req, method, code, ctx, others, answer>>
  BY DEF Logger, Rest
<1>8. Shapes' /\ Apart(r)
  BY <1>3, <1>6, <1>7 DEF Shapes, Apart, answer
<1>9. OnItsWay(r)' /\ Answered(r)'
  BY <1>1, <1>2, <1>3, <1>7 DEF Good, OnItsWay, Answered, answer
<1>10. Recorded(r)'
  BY <1>3, <1>6, <1>7 DEF Good, Recorded, Logged, answer
<1>11. Traced(r)'
  <2>1. Named(r, "http")' /\ Named(r, "http") /\ (Named(r, "rpc")' <=> Named(r, "rpc"))
    BY <1>1, <1>3 DEF Named
  <2>2. \A i \in 1..Len(lines'[r]["http"]) : lines'[r]["http"][i].id = header[r]
    BY <1>6
  <2>3. QED
    BY <1>3, <1>6, <1>7, <2>1, <2>2 DEF Good, Traced, Hops, answer
<1>12. QED
  BY <1>8, <1>9, <1>10, <1>11 DEF Kept, Good

\* The request id of the HTTP hop.
LEMMA HttpNames ==
  ASSUME Shapes, NEW r \in Requests, Good(r), RequestID(r, "http")
  PROVE  Kept(r)
<1>0. /\ at[r]["http"] \in Nat /\ req[r] \in Request /\ "http" \in Hops /\ "rpc" \in Hops
      /\ req[r].id \in {"none", "given"}
  BY DEF Shapes, Hops, Request
<1>1. /\ Depth(r)' = Depth(r) /\ Depth(r) \in Nat /\ Depth(r) >= 4 /\ dir[r]["http"] = "in"
      /\ at[r]["http"] \in 1..Depth(r)
  BY <1>0, Stacked DEF Depth, Stack, RequestID, In, Rest, Good, OnItsWay
<1>2. at[r]["http"] = 1
  BY <1>0, <1>1, HttpLayer, Stacked DEF RequestID, In
<1>3. /\ at' \in [Requests -> [Hops -> Nat]] /\ dir' \in [Requests -> [Hops -> Directions]]
      /\ at'[r]["http"] = 2 /\ dir'[r]["http"] = "in"
      /\ at'[r]["rpc"] = at[r]["rpc"] /\ dir'[r]["rpc"] = dir[r]["rpc"]
      /\ \A q \in Requests \ {r} : at'[q] = at[q] /\ dir'[q] = dir[q]
  <2>1. Move(r, "http", 2, "in")
    BY <1>2 DEF RequestID, Pass
  <2>2. QED
    BY <1>0, <2>1, Moved DEF Directions
<1> DEFINE id == IF req[r].id # "none" THEN req[r].id ELSE "http"
<1>4. /\ id \in Ids /\ id \in {"given", "http"} /\ (req[r].id = "given" => id # "http")
  BY <1>0 DEF Ids
<1>5. ctx' = [ctx EXCEPT ![r]["http"] = id] /\ header' = [header EXCEPT ![r] = id]
  BY DEF RequestID, Incoming
<1> HIDE DEF id
<1>6. /\ ctx' \in [Requests -> [Hops -> Ids]] /\ header' \in [Requests -> Ids]
      /\ ctx'[r]["http"] = id /\ header'[r] = id
      /\ ctx'[r]["rpc"] = ctx[r]["rpc"]
      /\ \A q \in Requests \ {r} : ctx'[q] = ctx[q] /\ header'[q] = header[q]
  BY <1>0, <1>4, <1>5 DEF Shapes
<1>7. UNCHANGED <<req, method, code, lines, others, rec, wire>>
  BY DEF RequestID, Rest
<1>8. Shapes' /\ Apart(r)
  BY <1>3, <1>6, <1>7 DEF Shapes, Apart
<1>9. OnItsWay(r)' /\ Answered(r)'
  BY <1>1, <1>2, <1>3, <1>7 DEF Good, OnItsWay, Answered
<1>10. Recorded(r)'
  BY <1>1, <1>3, <1>7 DEF Good, Recorded, Logged
<1>11. Traced(r)'
  <2>1. Named(r, "http")' /\ ~Named(r, "http") /\ dir[r]["rpc"] = "off" /\ ~Named(r, "rpc")'
    BY <1>1, <1>2, <1>3 DEF Named, Good, OnItsWay
  <2>2. others[r] = {} /\ method[r] = "none"
    BY <2>1 DEF Good, Traced, OnItsWay
  <2>3. Len(lines[r]["http"]) = 0 /\ Len(lines[r]["rpc"]) = 0
    BY <1>1, <2>1, <2>2 DEF Good, Recorded, Logged
  <2>4. QED
    BY <1>3, <1>4, <1>6, <1>7, <2>1, <2>2, <2>3 DEF Traced, Hops
<1>12. QED
  BY <1>8, <1>9, <1>10, <1>11 DEF Kept, Good

\* The handler makes an RPC, its first or its second.
LEMMA HttpCalls ==
  ASSUME Shapes, NEW r \in Requests, Good(r), NEW rpc \in {"ExistsByEmail", "Create"},
         Call(r, rpc), UNCHANGED <<req, lines, others, answer>>,
         \/ dir[r]["http"] = "in" /\ at[r]["http"] = Depth(r) /\ rpc = "ExistsByEmail"
         \/ /\ dir[r]["http"] = "wait" /\ dir[r]["rpc"] = "over" /\ rpc = "Create"
            /\ method[r] = "ExistsByEmail"
  PROVE  Kept(r)
<1>0. at[r]["http"] \in Nat /\ req[r] \in Request /\ "http" \in Hops /\ "rpc" \in Hops
  BY DEF Shapes, Hops
<1>1. Depth(r)' = Depth(r) /\ Depth(r) \in Nat /\ Depth(r) >= 4 /\ at[r]["http"] = Depth(r)
  BY <1>0, Stacked DEF Depth, Stack, Good, OnItsWay
<1>2. /\ at' \in [Requests -> [Hops -> Nat]]
      /\ at'[r]["http"] = at[r]["http"] /\ at'[r]["rpc"] = 1
      /\ ctx' \in [Requests -> [Hops -> Ids]]
      /\ ctx'[r]["http"] = ctx[r]["http"]
      /\ \A q \in Requests \ {r} : at'[q] = at[q] /\ ctx'[q] = ctx[q]
  BY <1>0 DEF Call, Shapes, Ids
<1>3. /\ dir' \in [Requests -> [Hops -> Directions]]
      /\ dir'[r]["http"] = "wait" /\ dir'[r]["rpc"] = "in"
      /\ \A q \in Requests \ {r} : dir'[q] = dir[q]
  <2>1. [http |-> "wait", rpc |-> "in"] \in [Hops -> Directions]
    BY DEF Hops, Directions
  <2>2. QED
    BY <2>1 DEF Call, Shapes
<1>4. /\ method' \in [Requests -> {"none", "ExistsByEmail", "Create"}]
      /\ code' \in [Requests -> GrpcCodes] /\ method'[r] = rpc
      /\ \A q \in Requests \ {r} : method'[q] = method[q] /\ code'[q] = code[q]
  BY DEF Call, Shapes, GrpcCodes
<1>5. Shapes' /\ Apart(r)
  BY <1>2, <1>3, <1>4 DEF Shapes, Apart, answer
<1>6. OnItsWay(r)' /\ Answered(r)'
  BY <1>1, <1>2, <1>3, <1>4 DEF Good, OnItsWay, Answered, answer
<1>7. Recorded(r)'
  <2>1. lines[r]["http"] = <<>> /\ ~Logged(r, "http")' /\ ~Logged(r, "rpc")'
    BY <1>3 DEF Good, Recorded, Logged
  <2>2. Len(lines[r]["rpc"]) = IF rpc = "Create" THEN 1 ELSE 0
    BY DEF Good, OnItsWay, Recorded, Logged
  <2>3. QED
    BY <1>4, <2>1, <2>2 DEF Recorded
<1>8. Traced(r)'
  <2>1. Named(r, "http") /\ Named(r, "http")' /\ ~Named(r, "rpc")'
    BY <1>0, <1>1, <1>2, <1>3 DEF Named
  <2>2. QED
    BY <1>2, <1>3, <2>1 DEF Good, Traced, answer
<1>9. QED
  BY <1>5, <1>6, <1>7, <1>8 DEF Kept, Good

\* A request arrives.
LEMMA Arrives ==
  ASSUME Shapes, NEW r \in Requests, Arrive(r)
  PROVE  Kept(r)
<1>1. PICK what \in Request : Start(r, what)
  BY DEF Arrive
<1>2. /\ [http |-> 1, rpc |-> 0] \in [Hops -> Nat]
      /\ [http |-> "in", rpc |-> "off"] \in [Hops -> Directions]
      /\ [h \in Hops |-> "none"] \in [Hops -> Ids]
  BY DEF Hops, Directions, Ids
<1>3. /\ req' \in [Requests -> Request] /\ req'[r] = what
      /\ at' \in [Requests -> [Hops -> Nat]] /\ at'[r]["http"] = 1 /\ at'[r]["rpc"] = 0
      /\ dir' \in [Requests -> [Hops -> Directions]]
      /\ dir'[r]["http"] = "in" /\ dir'[r]["rpc"] = "off"
      /\ ctx' \in [Requests -> [Hops -> Ids]]
      /\ \A q \in Requests \ {r} :
           req'[q] = req[q] /\ at'[q] = at[q] /\ dir'[q] = dir[q] /\ ctx'[q] = ctx[q]
  BY <1>1, <1>2 DEF Start, Shapes
<1>4. /\ method' \in [Requests -> {"none", "ExistsByEmail", "Create"}]
      /\ code' \in [Requests -> GrpcCodes]
      /\ method'[r] = "none"
      /\ \A q \in Requests \ {r} : method'[q] = method[q] /\ code'[q] = code[q]
  BY <1>1 DEF Start, Shapes, GrpcCodes
<1>5. /\ lines' \in AccessLines /\ lines'[r]["http"] = <<>> /\ lines'[r]["rpc"] = <<>>
      /\ \A q \in Requests \ {r} : lines'[q] = lines[q]
  <2> DEFINE empty == [h \in Hops |-> <<>>]
  <2>1. empty = [http |-> <<>>, rpc |-> <<>>]
    BY DEF Hops
  <2>2. empty \in [http : Seq([id : Ids, status : Statuses]),
                   rpc : Seq([id : Ids, status : GrpcCodes])]
    <3>1. /\ <<>> \in Seq([id : Ids, status : Statuses])
          /\ <<>> \in Seq([id : Ids, status : GrpcCodes])
      OBVIOUS
    <3>2. QED
      BY <2>1, <3>1, Zenon
  <2>3. empty["http"] = <<>> /\ empty["rpc"] = <<>>
    BY DEF Hops
  <2>4. lines' = [lines EXCEPT ![r] = empty]
    BY <1>1 DEF Start
  <2> HIDE DEF empty
  <2>5. QED
    BY <2>2, <2>3, <2>4 DEF Shapes, AccessLines
<1>6. /\ others' \in [Requests -> SUBSET Ids] /\ others'[r] = {}
      /\ \A q \in Requests \ {r} : others'[q] = others[q]
  BY <1>1 DEF Start, Shapes
<1>7. /\ rec' \in [Requests -> Statuses]
      /\ wire' \in [Requests -> Statuses \cup {0}] /\ wire'[r] = 0
      /\ header' \in [Requests -> Ids] /\ header'[r] = "none"
      /\ \A q \in Requests \ {r} :
           rec'[q] = rec[q] /\ wire'[q] = wire[q] /\ header'[q] = header[q]
  BY <1>1 DEF Start, Shapes, Statuses, Ids
<1>8. Shapes' /\ Apart(r)
  BY <1>3, <1>4, <1>5, <1>6, <1>7 DEF Shapes, Apart
<1>9. OnItsWay(r)' /\ Answered(r)'
  <2>1. Depth(r)' \in Nat /\ Depth(r)' >= 4
    <3>1. req'[r] \in Request
      BY <1>3
    <3>2. Depth(r)' = Len(Routes[req'[r].route])
      BY DEF Depth, Stack
    <3>3. QED
      BY <3>1, <3>2, Routed DEF WellStacked
  <2>2. QED
    BY <1>3, <1>4, <1>7, <2>1 DEF OnItsWay, Answered
<1>10. Recorded(r)'
  BY <1>3, <1>4, <1>5 DEF Recorded, Logged
<1>11. Traced(r)'
  <2>1. ~Named(r, "http")' /\ ~Named(r, "rpc")'
    BY <1>3 DEF Named
  <2>2. Len(lines'[r]["http"]) = 0 /\ Len(lines'[r]["rpc"]) = 0
    BY <1>5
  <2>3. QED
    BY <1>3, <1>6, <1>7, <2>1, <2>2 DEF Traced, Hops
<1>12. QED
  BY <1>8, <1>9, <1>10, <1>11 DEF Kept, Good

-----------------------------------------------------------------------------
(* Steps of the RPC's hop.                                                 *)

\* A layer behind the request id passes the call on.
LEMMA RpcPasses ==
  ASSUME Shapes, NEW r \in Requests, Good(r), dir[r]["rpc"] = "in", at[r]["rpc"] \in 2..4,
         Pass(r, "rpc"), UNCHANGED <<req, method, code, ctx, lines, others, answer>>
  PROVE  Kept(r)
<1>0. req[r] \in Request /\ "http" \in Hops /\ "rpc" \in Hops
  BY DEF Shapes, Hops
<1>1. /\ at' \in [Requests -> [Hops -> Nat]] /\ dir' \in [Requests -> [Hops -> Directions]]
      /\ at'[r]["rpc"] = at[r]["rpc"] + 1 /\ dir'[r]["rpc"] = "in"
      /\ at'[r]["http"] = at[r]["http"] /\ dir'[r]["http"] = dir[r]["http"]
      /\ \A q \in Requests \ {r} : at'[q] = at[q] /\ dir'[q] = dir[q]
  BY <1>0, Moved DEF Pass, Directions
<1>2. Depth(r)' = Depth(r) /\ Stack(r)' = Stack(r)
  BY DEF Depth, Stack
<1>3. Shapes' /\ Apart(r)
  BY <1>1 DEF Shapes, Apart, answer
<1>4. OnItsWay(r)' /\ Answered(r)'
  BY <1>1, <1>2 DEF Good, OnItsWay, Answered, answer
<1>5. Recorded(r)'
  BY <1>1 DEF Good, Recorded, Logged, answer
<1>6. Traced(r)'
  BY <1>1 DEF Good, Traced, Named, answer
<1>7. QED
  BY <1>3, <1>4, <1>5, <1>6 DEF Kept, Good

\* A layer behind the access line answers, or an answer passes it.
LEMMA RpcAnswers ==
  ASSUME Shapes, NEW r \in Requests, Good(r), dir[r]["rpc"] \in {"in", "out", "panic"},
         at[r]["rpc"] >= 3, Back(r, "rpc"),
         UNCHANGED code \/ \E status \in GrpcCodes : code' = [code EXCEPT ![r] = status],
         UNCHANGED others \/ Mention(r, "rpc"), UNCHANGED <<req, method, ctx, lines, answer>>
  PROVE  Kept(r)
<1>0. at[r]["rpc"] \in Nat /\ req[r] \in Request /\ "http" \in Hops /\ "rpc" \in Hops
  BY DEF Shapes, Hops
<1>1. /\ at' \in [Requests -> [Hops -> Nat]] /\ dir' \in [Requests -> [Hops -> Directions]]
      /\ at'[r]["rpc"] = at[r]["rpc"] - 1 /\ dir'[r]["rpc"] = "out"
      /\ at'[r]["http"] = at[r]["http"] /\ dir'[r]["http"] = dir[r]["http"]
      /\ \A q \in Requests \ {r} : at'[q] = at[q] /\ dir'[q] = dir[q]
  <2>1. at[r]["rpc"] - 1 \in Nat /\ Move(r, "rpc", at[r]["rpc"] - 1, "out")
    BY <1>0 DEF Back
  <2>2. QED
    BY <1>0, <2>1, Moved DEF Directions
<1>2. Depth(r)' = Depth(r) /\ Stack(r)' = Stack(r)
  BY DEF Depth, Stack
<1>3. code' \in [Requests -> GrpcCodes] /\ \A q \in Requests \ {r} : code'[q] = code[q]
  BY DEF Shapes
<1>4. /\ others' \in [Requests -> SUBSET Ids]
      /\ others'[r] \subseteq others[r] \cup {ctx[r]["rpc"]}
      /\ \A q \in Requests \ {r} : others'[q] = others[q]
  BY <1>0, Mentioned
<1>5. Shapes' /\ Apart(r)
  BY <1>1, <1>3, <1>4 DEF Shapes, Apart, answer
<1>6. OnItsWay(r)' /\ Answered(r)'
  BY SMTT(30), <1>0, <1>1, <1>2 DEF Good, OnItsWay, Answered, answer
<1>7. Recorded(r)'
  BY SMTT(30), <1>0, <1>1 DEF Good, Recorded, Logged, answer
<1>8. Traced(r)'
  <2>1. Named(r, "http") /\ Named(r, "http")' /\ Named(r, "rpc") /\ Named(r, "rpc")'
    BY <1>0, <1>1 DEF Named, Good, Traced
  <2>2. ctx[r]["rpc"] = header[r] /\ others[r] \subseteq {header[r]}
    BY <2>1 DEF Good, Traced
  <2>3. QED
    BY <1>1, <1>4, <2>1, <2>2 DEF Good, Traced, answer
<1>9. QED
  BY <1>5, <1>6, <1>7, <1>8 DEF Kept, Good

\* The method panics, or its panic passes the layer before the recovery.
LEMMA RpcUnwinds ==
  ASSUME Shapes, NEW r \in Requests, Good(r), Unwind(r, "rpc"),
         \/ dir[r]["rpc"] = "in" /\ at[r]["rpc"] = 5
         \/ dir[r]["rpc"] = "panic" /\ at[r]["rpc"] = 4,
         UNCHANGED <<req, method, code, ctx, lines, others, answer>>
  PROVE  Kept(r)
<1>0. at[r]["rpc"] \in Nat /\ req[r] \in Request /\ "http" \in Hops /\ "rpc" \in Hops
  BY DEF Shapes, Hops
<1>1. /\ at' \in [Requests -> [Hops -> Nat]] /\ dir' \in [Requests -> [Hops -> Directions]]
      /\ at'[r]["rpc"] = at[r]["rpc"] - 1 /\ dir'[r]["rpc"] = "panic"
      /\ at'[r]["http"] = at[r]["http"] /\ dir'[r]["http"] = dir[r]["http"]
      /\ \A q \in Requests \ {r} : at'[q] = at[q] /\ dir'[q] = dir[q]
  <2>1. at[r]["rpc"] - 1 \in Nat /\ Move(r, "rpc", at[r]["rpc"] - 1, "panic")
    BY <1>0 DEF Unwind
  <2>2. QED
    BY <1>0, <2>1, Moved DEF Directions
<1>2. Depth(r)' = Depth(r) /\ Stack(r)' = Stack(r)
  BY DEF Depth, Stack
<1>3. Shapes' /\ Apart(r)
  BY <1>1 DEF Shapes, Apart, answer
<1>4. OnItsWay(r)' /\ Answered(r)'
  BY <1>0, <1>1, <1>2 DEF Good, OnItsWay, Answered, answer
<1>5. Recorded(r)'
  BY <1>0, <1>1 DEF Good, Recorded, Logged, answer
<1>6. Traced(r)'
  BY <1>0, <1>1 DEF Good, Traced, Named, answer
<1>7. QED
  BY <1>3, <1>4, <1>5, <1>6 DEF Kept, Good

\* The call leaves its outermost layer.
LEMMA RpcLeaves ==
  ASSUME Shapes, NEW r \in Requests, Good(r), dir[r]["rpc"] = "out", at[r]["rpc"] = 1,
         Back(r, "rpc"), UNCHANGED <<req, method, code, ctx, lines, others, answer>>
  PROVE  Kept(r)
<1>0. req[r] \in Request /\ "http" \in Hops /\ "rpc" \in Hops
  BY DEF Shapes, Hops
<1>1. /\ at' \in [Requests -> [Hops -> Nat]] /\ dir' \in [Requests -> [Hops -> Directions]]
      /\ at'[r]["rpc"] = 0 /\ dir'[r]["rpc"] = "over"
      /\ at'[r]["http"] = at[r]["http"] /\ dir'[r]["http"] = dir[r]["http"]
      /\ \A q \in Requests \ {r} : at'[q] = at[q] /\ dir'[q] = dir[q]
  <2>1. Move(r, "rpc", 0, "over")
    BY DEF Back
  <2>2. QED
    BY <1>0, <2>1, Moved DEF Directions
<1>2. Depth(r)' = Depth(r) /\ Stack(r)' = Stack(r)
  BY DEF Depth, Stack
<1>3. Shapes' /\ Apart(r)
  BY <1>1 DEF Shapes, Apart, answer
<1>4. OnItsWay(r)' /\ Answered(r)'
  BY <1>1, <1>2 DEF Good, OnItsWay, Answered, answer
<1>5. Recorded(r)'
  BY <1>1 DEF Good, Recorded, Logged, answer
<1>6. Traced(r)'
  BY <1>1 DEF Good, Traced, Named, answer
<1>7. QED
  BY <1>3, <1>4, <1>5, <1>6 DEF Kept, Good

\* The access line of the call, with the code it goes back with.
LEMMA RpcLogs ==
  ASSUME Shapes, NEW r \in Requests, Good(r), Logger(r, "rpc")
  PROVE  Kept(r)
<1>0. /\ at[r]["rpc"] \in Nat /\ req[r] \in Request /\ "http" \in Hops /\ "rpc" \in Hops
      /\ code[r] \in GrpcCodes
  BY DEF Shapes, Hops
<1>1. at[r]["rpc"] = 2 /\ dir[r]["rpc"] = "out"
  BY <1>0, RpcLayer DEF Logger, In
<1>2. /\ at' \in [Requests -> [Hops -> Nat]] /\ dir' \in [Requests -> [Hops -> Directions]]
      /\ at'[r]["rpc"] = 1 /\ dir'[r]["rpc"] = "out"
      /\ at'[r]["http"] = at[r]["http"] /\ dir'[r]["http"] = dir[r]["http"]
      /\ \A q \in Requests \ {r} : at'[q] = at[q] /\ dir'[q] = dir[q]
  <2>1. Move(r, "rpc", 1, "out")
    BY <1>1 DEF Logger, Back
  <2>2. QED
    BY <1>0, <2>1, Moved DEF Directions
<1>3. Lengthens(r, "rpc", code[r])
  BY <1>0, Lined DEF Logger
<1>4. UNCHANGED <<req, method, code, ctx, others, answer>>
  BY DEF Logger, Rest
<1>5. Depth(r)' = Depth(r) /\ Stack(r)' = Stack(r)
  BY <1>4 DEF Depth, Stack
<1>6. Shapes' /\ Apart(r)
  BY <1>2, <1>3, <1>4 DEF Shapes, Apart, answer, Lengthens
<1>7. OnItsWay(r)' /\ Answered(r)'
  BY <1>1, <1>2, <1>4, <1>5 DEF Good, OnItsWay, Answered, answer
<1>8. /\ lines'[r]["http"] = lines[r]["http"] /\ Len(lines[r]["rpc"]) \in Nat
      /\ Len(lines'[r]["rpc"]) = Len(lines[r]["rpc"]) + 1
      /\ \A i \in 1..Len(lines[r]["rpc"]) : lines'[r]["rpc"][i] = lines[r]["rpc"][i]
      /\ lines'[r]["rpc"][Len(lines'[r]["rpc"])] = [id |-> ctx[r]["rpc"], status |-> code[r]]
  BY <1>0, <1>3 DEF Lengthens
<1>9. Recorded(r)'
  <2>1. ~Logged(r, "rpc") /\ Logged(r, "rpc")' /\ (Logged(r, "http")' <=> Logged(r, "http"))
    BY <1>1, <1>2 DEF Logged
  <2>2. Len(lines'[r]["rpc"]) = (IF method[r] = "Create" THEN 1 ELSE 0) + 1
    BY <1>8, <2>1 DEF Good, Recorded
  <2>3. lines'[r]["rpc"][Len(lines'[r]["rpc"])].status = code[r]
    BY <1>8
  <2>4. QED
    BY <1>4, <1>8, <2>1, <2>2, <2>3 DEF Good, Recorded, answer
<1>10. Traced(r)'
  <2>1. /\ Named(r, "http") /\ Named(r, "http")' /\ Named(r, "rpc") /\ Named(r, "rpc")'
    BY <1>1, <1>2 DEF Named, Good, Traced
  <2>2. \A i \in 1..Len(lines'[r]["rpc"]) : lines'[r]["rpc"][i].id = header[r]
    <3>1. ctx[r]["rpc"] = header[r]
      BY <2>1 DEF Good, Traced
    <3>2. \A i \in 1..Len(lines[r]["rpc"]) : lines[r]["rpc"][i].id = header[r]
      BY <1>0 DEF Good, Traced
    <3>3. lines'[r]["rpc"][Len(lines'[r]["rpc"])].id = header[r]
      BY <1>8, <3>1
    <3>4. \A i \in 1..Len(lines'[r]["rpc"]) :
            i \in 1..Len(lines[r]["rpc"]) \/ i = Len(lines'[r]["rpc"])
      BY <1>8
    <3>5. QED
      BY <1>8, <3>2, <3>3, <3>4, Zenon
  <2>3. QED
    BY <1>2, <1>4, <1>8, <2>1, <2>2 DEF Good, Traced, Hops, answer
<1>11. QED
  BY <1>6, <1>7, <1>9, <1>10 DEF Kept, Good

\* The request id of the call, which is the caller's.
LEMMA RpcNames ==
  ASSUME Shapes, NEW r \in Requests, Good(r), RequestID(r, "rpc")
  PROVE  Kept(r)
<1>0. at[r]["rpc"] \in Nat /\ req[r] \in Request /\ "http" \in Hops /\ "rpc" \in Hops
  BY DEF Shapes, Hops
<1>1. at[r]["rpc"] = 1 /\ dir[r]["rpc"] = "in"
  BY <1>0, RpcLayer DEF RequestID, In
<1>2. /\ at' \in [Requests -> [Hops -> Nat]] /\ dir' \in [Requests -> [Hops -> Directions]]
      /\ at'[r]["rpc"] = 2 /\ dir'[r]["rpc"] = "in"
      /\ at'[r]["http"] = at[r]["http"] /\ dir'[r]["http"] = dir[r]["http"]
      /\ \A q \in Requests \ {r} : at'[q] = at[q] /\ dir'[q] = dir[q]
  <2>1. Move(r, "rpc", 2, "in")
    BY <1>1 DEF RequestID, Pass
  <2>2. QED
    BY <1>0, <2>1, Moved DEF Directions
<1>3. Named(r, "http") /\ ctx[r]["http"] = header[r] /\ header[r] # "none" /\ header[r] \in Ids
  BY <1>1 DEF Good, Traced, Shapes
<1>4. ctx' = [ctx EXCEPT ![r]["rpc"] = header[r]] /\ header' = header
  BY <1>3 DEF RequestID, Incoming
<1>5. /\ ctx' \in [Requests -> [Hops -> Ids]]
      /\ ctx'[r]["rpc"] = header[r] /\ ctx'[r]["http"] = ctx[r]["http"]
      /\ \A q \in Requests \ {r} : ctx'[q] = ctx[q]
  BY <1>0, <1>3, <1>4 DEF Shapes
<1>6. UNCHANGED <<req, method, code, lines, others, rec, wire>>
  BY DEF RequestID, Rest
<1>7. Depth(r)' = Depth(r) /\ Stack(r)' = Stack(r)
  BY <1>6 DEF Depth, Stack
<1>8. Shapes' /\ Apart(r)
  BY <1>2, <1>4, <1>5, <1>6 DEF Shapes, Apart
<1>9. OnItsWay(r)' /\ Answered(r)'
  BY <1>1, <1>2, <1>6, <1>7 DEF Good, OnItsWay, Answered
<1>10. Recorded(r)'
  BY <1>1, <1>2, <1>6 DEF Good, Recorded, Logged
<1>11. Traced(r)'
  <2>1. Named(r, "http")'
    BY <1>2, <1>3 DEF Named
  <2>2. QED
    BY <1>2, <1>3, <1>4, <1>5, <1>6, <2>1 DEF Good, Traced
<1>12. QED
  BY <1>8, <1>9, <1>10, <1>11 DEF Kept, Good

-----------------------------------------------------------------------------
(* Every layer keeps the invariant.                                        *)

\* A layer that is neither of the first two is behind them, and the last is the handler.
LEMMA Behind ==
  ASSUME Shapes, NEW r \in Requests, Layer(r, "http") \notin {"none", "RequestID", "Logger"}
  PROVE  /\ at[r]["http"] >= 3
         /\ Layer(r, "http") \in {"Register", "Create"} <=> at[r]["http"] = Depth(r)
         /\ Layer(r, "http") \notin {"Recovery", "Validation", "Method"}
<1>1. at[r]["http"] \in Nat /\ req[r] \in Request
  BY DEF Shapes, Hops
<1>2. at[r]["http"] \in 1..Depth(r) /\ Layer(r, "http") = Stack(r)[at[r]["http"]]
  BY <1>1, HttpLayer
<1>3. at[r]["http"] # 1 /\ at[r]["http"] # 2
  BY <1>1, <1>2, Stacked
<1>4. QED
  BY <1>1, <1>2, <1>3, Stacked

\* An error, once the request is behind the access line, is an answer.
LEMMA HttpErrs ==
  ASSUME Shapes, NEW r \in Requests, Good(r), dir[r]["http"] \in {"in", "wait", "panic"},
         at[r]["http"] >= 3, Back(r, "http"),
         NEW err \in {"panic", "unauthorized", "invalid", "conflict", "other", "internal",
                  "notfound"},
         Error(r, err), UNCHANGED <<req, method, code, ctx, lines>>
  PROVE  Kept(r)
BY Erred, HttpAnswers

\* A preflight is answered; the rest is passed on.
LEMMA CorsKept == ASSUME Shapes, NEW r \in Requests, Good(r), Cors(r) PROVE Kept(r)
<1>1. dir[r]["http"] = "in" /\ at[r]["http"] >= 3 /\ at[r]["http"] # Depth(r) /\ 200 \in Statuses
  BY Behind DEF Cors, In, Statuses
<1>2. UNCHANGED <<req, method, code, ctx, lines, others>>
  BY DEF Cors, Rest
<1>3. CASE Write(r, 200) /\ Back(r, "http")
  BY <1>1, <1>2, <1>3, HttpAnswers
<1>4. CASE Pass(r, "http") /\ UNCHANGED answer
  <2>1. at[r]["http"] > 1
    BY <1>1 DEF Shapes, Hops
  <2>2. QED
    BY <1>1, <1>2, <1>4, <2>1, HttpPasses
<1>5. QED
  BY <1>3, <1>4 DEF Cors

\* A request is refused or let in.
LEMMA RateLimitKept == ASSUME Shapes, NEW r \in Requests, Good(r), RateLimit(r) PROVE Kept(r)
<1>1. dir[r]["http"] = "in" /\ at[r]["http"] >= 3 /\ at[r]["http"] # Depth(r)
  BY Behind DEF RateLimit, In
<1>2. UNCHANGED <<req, method, code, ctx, lines, others>>
  BY DEF RateLimit
<1>3. HttpStatus("toomany") \in Statuses
  BY DEF HttpStatus, Statuses
<1>4. CASE Write(r, HttpStatus("toomany")) /\ Back(r, "http")
  BY <1>1, <1>2, <1>3, <1>4, HttpAnswers
<1>5. CASE Pass(r, "http") /\ UNCHANGED answer
  <2>1. at[r]["http"] > 1
    BY <1>1 DEF Shapes, Hops
  <2>2. QED
    BY <1>1, <1>2, <1>5, <2>1, HttpPasses
<1>6. QED
  BY <1>4, <1>5 DEF RateLimit

\* A request without a user is refused.
LEMMA AuthKept == ASSUME Shapes, NEW r \in Requests, Good(r), Auth(r) PROVE Kept(r)
<1>1. dir[r]["http"] = "in" /\ at[r]["http"] >= 3 /\ at[r]["http"] # Depth(r)
  BY Behind DEF Auth, In
<1>2. UNCHANGED <<req, method, code, ctx, lines>>
  BY DEF Auth, Rest
<1>3. CASE Pass(r, "http") /\ UNCHANGED <<answer, others>>
  <2>1. at[r]["http"] > 1
    BY <1>1 DEF Shapes, Hops
  <2>2. QED
    BY <1>1, <1>2, <1>3, <2>1, HttpPasses
<1>4. CASE Error(r, "unauthorized") /\ Back(r, "http")
  BY <1>1, <1>2, <1>4, HttpErrs
<1>5. QED
  BY <1>3, <1>4 DEF Auth

\* A bad body is refused.
LEMMA DecodeKept == ASSUME Shapes, NEW r \in Requests, Good(r), Decode(r) PROVE Kept(r)
<1>1. dir[r]["http"] = "in" /\ at[r]["http"] >= 3
  BY Behind DEF Decode
<1>2. UNCHANGED <<req, method, code, ctx, lines>> /\ Back(r, "http")
  BY DEF Decode, Rest
<1>3. Error(r, "invalid")
  BY DEF Decode, DecodeJSON, Validate
<1>4. QED
  BY <1>1, <1>2, <1>3, HttpErrs

\* A handler panics.
LEMMA HandlerPanicsKept ==
  ASSUME Shapes, NEW r \in Requests, Good(r), HandlerPanics(r) PROVE Kept(r)
<1>1. dir[r]["http"] = "in" /\ at[r]["http"] = Depth(r)
  BY Behind DEF HandlerPanics
<1>2. QED
  BY <1>1, HttpUnwinds DEF HandlerPanics, Rest

\* A panic becomes an answer.
LEMMA PanicRecoveryKept ==
  ASSUME Shapes, NEW r \in Requests, Good(r), PanicRecovery(r) PROVE Kept(r)
<1>1. dir[r]["http"] = "panic" /\ at[r]["http"] >= 3
  BY Behind DEF PanicRecovery, In
<1>2. QED
  BY <1>1, HttpErrs DEF PanicRecovery, Rest

\* The handler of a new user answers.
LEMMA CreateKept == ASSUME Shapes, NEW r \in Requests, Good(r), Create(r) PROVE Kept(r)
<1>1. dir[r]["http"] = "in" /\ at[r]["http"] >= 3 /\ 201 \in Statuses
  BY Behind DEF Create, In, Statuses
<1>2. UNCHANGED <<req, method, code, ctx, lines>> /\ Back(r, "http")
  BY DEF Create, Rest
<1>3. CASE Write(r, 201) /\ NewEnvelope(r, "http")
  BY <1>1, <1>2, <1>3, HttpAnswers DEF NewEnvelope
<1>4. CASE \E err \in {"conflict", "other"} : Error(r, err)
  BY <1>1, <1>2, <1>4, HttpErrs
<1>5. QED
  BY <1>3, <1>4 DEF Create

\* The handler of a registration asks for the address first.
LEMMA RegisterKept == ASSUME Shapes, NEW r \in Requests, Good(r), Register(r) PROVE Kept(r)
<1>1. dir[r]["http"] = "in" /\ at[r]["http"] = Depth(r)
  BY Behind DEF Register, In
<1>2. QED
  BY <1>1, HttpCalls DEF Register

\* A status out of the errors that cross the hop back.
LEMMA Returned ==
  ASSUME NEW status \in GrpcCodes \cup {"DeadlineExceeded"}
  PROVE  FromGrpc(status) \in {"conflict", "invalid", "internal", "notfound"}
BY DEF GrpcCodes, FromGrpc

\* An RPC's answer becomes the next RPC or the answer of the handler.
LEMMA ReturnKept == ASSUME Shapes, NEW r \in Requests, Good(r), Return(r) PROVE Kept(r)
<1>1. /\ dir[r]["http"] = "wait" /\ dir[r]["rpc"] = "over" /\ at[r]["http"] >= 3
      /\ at[r]["http"] = Depth(r) /\ 201 \in Statuses /\ code[r] \in GrpcCodes
  <2>1. req[r] \in Request /\ at[r]["http"] = Depth(r) /\ dir[r]["rpc"] = "over"
    BY DEF Return, Good, OnItsWay, Shapes
  <2>2. QED
    BY <2>1, Stacked DEF Return, Statuses, Shapes
<1>2. UNCHANGED <<req, lines>>
  BY DEF Return
<1>3. CASE /\ Error(r, FromGrpc(code[r])) /\ Back(r, "http")
           /\ UNCHANGED <<method, code, ctx>>
  BY <1>1, <1>2, <1>3, Returned, HttpErrs
<1>4. CASE Error(r, "conflict") /\ Back(r, "http") /\ UNCHANGED <<method, code, ctx>>
  BY <1>1, <1>2, <1>4, HttpErrs
<1>5. CASE Write(r, 201) /\ Back(r, "http") /\ UNCHANGED <<method, code, ctx, others>>
  BY <1>1, <1>2, <1>5, HttpAnswers
<1>6. CASE method[r] = "ExistsByEmail" /\ Call(r, "Create") /\ UNCHANGED <<others, answer>>
  BY <1>1, <1>2, <1>6, HttpCalls
<1>7. QED
  BY <1>3, <1>4, <1>5, <1>6 DEF Return

\* The handler answers without the RPC, which may go on.
LEMMA DeadlineKept == ASSUME Shapes, NEW r \in Requests, Good(r), Deadline(r) PROVE Kept(r)
<1>1. dir[r]["http"] = "wait" /\ at[r]["http"] >= 3
  <2>1. req[r] \in Request /\ at[r]["http"] = Depth(r) /\ dir[r]["http"] = "wait"
    BY DEF Deadline, Good, OnItsWay, Shapes
  <2>2. QED
    BY <2>1, Stacked
<1>2. QED
  BY <1>1, Returned, HttpErrs DEF Deadline, Rest

\* A panic becomes an answer of the RPC.
LEMMA RecoveryKept == ASSUME Shapes, NEW r \in Requests, Good(r), Recovery(r) PROVE Kept(r)
<1>1. dir[r]["rpc"] = "panic" /\ at[r]["rpc"] >= 3 /\ "Internal" \in GrpcCodes
  BY RpcLayer DEF Recovery, In, Shapes, Hops, GrpcCodes
<1>2. UNCHANGED <<req, method, ctx, lines, answer>> /\ Back(r, "rpc") /\ Mention(r, "rpc")
  BY DEF Recovery
<1>3. code' = [code EXCEPT ![r] = "Internal"]
  BY DEF Recovery
<1>4. QED
  BY <1>1, <1>2, <1>3, RpcAnswers

\* A message is refused or passed on.
LEMMA ValidationKept == ASSUME Shapes, NEW r \in Requests, Good(r), Validation(r) PROVE Kept(r)
<1>1. dir[r]["rpc"] = "in" /\ at[r]["rpc"] \in 2..4 /\ at[r]["rpc"] >= 3
      /\ "InvalidArgument" \in GrpcCodes
  BY RpcLayer DEF Validation, In, Shapes, Hops, GrpcCodes
<1>2. UNCHANGED <<req, method, ctx, lines, others, answer>>
  BY DEF Validation
<1>3. CASE Pass(r, "rpc") /\ UNCHANGED code
  BY <1>1, <1>2, <1>3, RpcPasses
<1>4. CASE code' = [code EXCEPT ![r] = "InvalidArgument"] /\ Back(r, "rpc")
  BY <1>1, <1>2, <1>4, RpcAnswers
<1>5. QED
  BY <1>3, <1>4 DEF Validation

\* The method answers or panics.
LEMMA MethodKept == ASSUME Shapes, NEW r \in Requests, Good(r), Method(r) PROVE Kept(r)
<1>1. dir[r]["rpc"] = "in" /\ at[r]["rpc"] = 5 /\ at[r]["rpc"] >= 3
  BY RpcLayer DEF Method, In, Shapes, Hops
<1>2. UNCHANGED <<req, method, ctx, lines, answer>>
  BY DEF Method
<1>3. CASE /\ Back(r, "rpc") /\ UNCHANGED code
           /\ UNCHANGED others \/ NewEnvelope(r, "rpc")
  BY <1>1, <1>2, <1>3, RpcAnswers DEF NewEnvelope
<1>4. CASE /\ \E err \in {"conflict", "other"} :
                code' = [code EXCEPT ![r] = GrpcCode(From(err))]
           /\ Back(r, "rpc") /\ UNCHANGED others
  <2>1. \A err \in {"conflict", "other"} : GrpcCode(From(err)) \in GrpcCodes
    BY DEF GrpcCode, From, Codes, GrpcCodes
  <2>2. QED
    BY <1>1, <1>2, <1>4, <2>1, RpcAnswers
<1>5. CASE Unwind(r, "rpc") /\ UNCHANGED <<code, others>>
  BY <1>1, <1>2, <1>5, RpcUnwinds
<1>6. QED
  BY <1>3, <1>4, <1>5 DEF Method

\* The id is taken over or made.
LEMMA RequestIDKept ==
  ASSUME Shapes, NEW r \in Requests, Good(r), NEW h \in Hops, RequestID(r, h) PROVE Kept(r)
BY HttpNames, RpcNames DEF Hops

\* The access line is written on the way out.
LEMMA LoggerKept ==
  ASSUME Shapes, NEW r \in Requests, Good(r), NEW h \in Hops, Logger(r, h) PROVE Kept(r)
BY HttpLogs, RpcLogs DEF Hops

\* Layers that only pass on.
LEMMA EnterKept ==
  ASSUME Shapes, NEW r \in Requests, Good(r), NEW h \in Hops, Enter(r, h) PROVE Kept(r)
<1>1. /\ UNCHANGED <<req, method, code, ctx, lines, others, answer>>
      /\ Pass(r, h) /\ dir[r][h] = "in"
      /\ at[r]["http"] \in Nat /\ at[r]["rpc"] \in Nat /\ req[r] \in Request
      /\ Layer(r, h) \in {"Logger", "PanicRecovery", "Recovery"}
  BY DEF Enter, Rest, Shapes, Hops
<1>2. CASE h = "http"
  <2>1. at[r]["http"] > 1 /\ at[r]["http"] # Depth(r)
    <3>1. CASE Layer(r, "http") = "Logger"
      <4>1. at[r]["http"] \in 1..Depth(r) /\ Stack(r)[at[r]["http"]] = "Logger"
        BY <1>1, <3>1, HttpLayer
      <4>2. QED
        BY <1>1, <4>1, Stacked
    <3>2. CASE Layer(r, "http") \in {"PanicRecovery", "Recovery"}
      BY <1>1, <3>2, Behind
    <3>3. QED
      BY <1>1, <1>2, <3>1, <3>2
  <2>2. QED
    BY <1>1, <1>2, <2>1, HttpPasses
<1>3. CASE h = "rpc"
  <2>1. at[r]["rpc"] \in 2..4
    BY <1>1, <1>3, RpcLayer
  <2>2. QED
    BY <1>1, <1>3, <2>1, RpcPasses
<1>4. QED
  BY <1>2, <1>3 DEF Hops

\* Layers an answer passes.
LEMMA LeaveKept ==
  ASSUME Shapes, NEW r \in Requests, Good(r), NEW h \in Hops, Leave(r, h) PROVE Kept(r)
<1>1. /\ UNCHANGED <<req, method, code, ctx, lines, others, answer>>
      /\ Back(r, h) /\ dir[r][h] = "out" /\ Layer(r, h) # "Logger"
  BY DEF Leave, Rest
<1>2. CASE h = "http"
  BY <1>1, <1>2, HttpLeaves
<1>3. CASE h = "rpc"
  <2>1. at[r]["rpc"] \in 1..4 /\ at[r]["rpc"] # 2
    BY <1>1, <1>3, RpcLayer DEF Good, OnItsWay, Shapes, Hops
  <2>2. CASE at[r]["rpc"] = 1
    BY <1>1, <1>3, <2>2, RpcLeaves
  <2>3. CASE at[r]["rpc"] >= 3
    BY <1>1, <1>3, <2>3, RpcAnswers
  <2>4. QED
    BY <2>1, <2>2, <2>3
<1>4. QED
  BY <1>2, <1>3 DEF Hops

\* Layers a panic passes.
LEMMA PanicKept ==
  ASSUME Shapes, NEW r \in Requests, Good(r), NEW h \in Hops, Panic(r, h) PROVE Kept(r)
<1>1. /\ UNCHANGED <<req, method, code, ctx, lines, others, answer>>
      /\ Unwind(r, h) /\ dir[r][h] = "panic" /\ Layer(r, h) \notin {"PanicRecovery", "Recovery"}
  BY DEF Panic, Rest
<1>2. CASE h = "http"
  BY <1>1, <1>2, HttpUnwinds
<1>3. CASE h = "rpc"
  <2>1. at[r]["rpc"] = 4
    BY <1>1, <1>3, RpcLayer DEF Good, OnItsWay, Shapes, Hops
  <2>2. QED
    BY <1>1, <1>3, <2>1, RpcUnwinds
<1>4. QED
  BY <1>2, <1>3 DEF Hops

-----------------------------------------------------------------------------

\* The inductive invariant of the requests.
Sound == Shapes /\ \A r \in Requests : Good(r)

\* The initial state: nobody has asked for anything.
LEMMA NobodyYet == Init => Sound
<1> SUFFICES ASSUME Init PROVE Sound
  OBVIOUS
<1>1. Shapes
  <2> DEFINE none == [h \in Hops |-> <<>>]
  <2>1. none \in [http : Seq([id : Ids, status : Statuses]),
                  rpc : Seq([id : Ids, status : GrpcCodes])]
    <3>1. none = [http |-> <<>>, rpc |-> <<>>]
      BY DEF Hops
    <3>2. /\ <<>> \in Seq([id : Ids, status : Statuses])
          /\ <<>> \in Seq([id : Ids, status : GrpcCodes])
      OBVIOUS
    <3>3. QED
      BY <3>1, <3>2, Zenon
  <2>2. lines = [r \in Requests |-> none]
    BY DEF Init
  <2> HIDE DEF none
  <2>3. lines \in AccessLines
    BY <2>1, <2>2 DEF AccessLines
  <2>4. req \in [Requests -> Request]
    <3>1. [route |-> "users", id |-> "none"] \in Request
      BY DEF Request
    <3>2. (CHOOSE what \in Request : TRUE) \in Request
      BY <3>1
    <3>3. QED
      BY <3>2 DEF Init
  <2>5. QED
    BY <2>3, <2>4 DEF Init, Shapes, Directions, Ids, GrpcCodes, Statuses
<1>2. ASSUME NEW r \in Requests PROVE Good(r)
  <2>1. /\ at[r]["http"] = 0 /\ at[r]["rpc"] = 0 /\ dir[r]["http"] = "off" /\ dir[r]["rpc"] = "off"
        /\ method[r] = "none" /\ lines[r]["http"] = <<>> /\ lines[r]["rpc"] = <<>>
        /\ others[r] = {} /\ wire[r] = 0 /\ header[r] = "none"
    BY DEF Init, Hops
  <2>2. QED
    BY <2>1 DEF Good, OnItsWay, Answered, Recorded, Logged, Traced, Named, Hops
<1>3. QED
  BY <1>1, <1>2 DEF Sound

\* Every step of every request keeps it.
LEMMA SoundInductive == Spec => []Sound
<1>1. ASSUME Sound, [Next]_vars PROVE Sound'
  <2>1. ASSUME NEW r \in Requests, Kept(r) PROVE Sound'
    BY <1>1, <2>1, Undisturbed DEF Sound, Kept
  <2>2. ASSUME NEW r \in Requests,
               \/ Arrive(r) \/ Cors(r) \/ RateLimit(r) \/ Auth(r) \/ Decode(r)
               \/ HandlerPanics(r) \/ PanicRecovery(r) \/ Create(r) \/ Register(r) \/ Return(r)
               \/ Deadline(r) \/ Recovery(r) \/ Validation(r) \/ Method(r)
        PROVE  Kept(r)
    BY <1>1, <2>2, Arrives, CorsKept, RateLimitKept, AuthKept, DecodeKept, HandlerPanicsKept,
       PanicRecoveryKept, CreateKept, RegisterKept, ReturnKept, DeadlineKept, RecoveryKept,
       ValidationKept, MethodKept DEF Sound
  <2>3. ASSUME NEW r \in Requests, NEW h \in Hops,
               \/ RequestID(r, h) \/ Enter(r, h) \/ Logger(r, h) \/ Leave(r, h) \/ Panic(r, h)
        PROVE  Kept(r)
    BY <1>1, <2>3, RequestIDKept, EnterKept, LoggerKept, LeaveKept, PanicKept DEF Sound
  <2>4. CASE Elsewhere \/ UNCHANGED vars
    <3>1. UNCHANGED <<req, at, dir, ctx, method, code, lines, others, answer>>
      BY <2>4 DEF Elsewhere, vars
    <3>2. Shapes'
      BY <1>1, <3>1 DEF Sound, Shapes, answer
    <3>3. ASSUME NEW r \in Requests PROVE Good(r)'
      <4>1. Good(r) /\ Depth(r)' = Depth(r) /\ Stack(r)' = Stack(r)
        BY <1>1, <3>1 DEF Sound, Depth, Stack
      <4>2. QED
        BY <4>1, <3>1 DEF Good, OnItsWay, Answered, Recorded, Logged, Traced, Named, answer
    <3>4. QED
      BY <3>2, <3>3 DEF Sound
  <2>5. QED
    BY <1>1, <2>1, <2>2, <2>3, <2>4 DEF Next
<1>2. QED
  BY NobodyYet, <1>1, PTL DEF Spec

\* The type invariant: no layer is left by the wrong end, and every error, wherever it was
\* made, becomes one of the statuses of the API.
THEOREM HttpTypes == Spec => []TypeOK
<1>1. Sound /\ LimiterTypeOK => TypeOK
  BY DEF Sound, Shapes, TypeOK, AccessLines, Directions
<1>2. QED
  BY SoundInductive, LimiterImplemented, LimiterTypes, <1>1, PTL

\* Every request the server is done with was answered and logged once with the status that
\* was sent, and so was every call, whatever panicked or was refused and whatever else the
\* routers put between the access line and the handler.
THEOREM RequestsAreAnswered == Spec => []AnsweredAndLogged
<1>1. Sound => AnsweredAndLogged
  <2>1. ASSUME Sound, NEW r \in Requests, dir[r]["http"] = "over"
        PROVE  /\ wire[r] # 0
               /\ [i \in DOMAIN lines[r]["http"] |-> lines[r]["http"][i].status] = <<wire[r]>>
    <3>1. /\ wire[r] # 0 /\ Len(lines[r]["http"]) = 1
          /\ lines[r]["http"][1].status = wire[r]
      BY <2>1 DEF Sound, Good, Answered, Recorded, Logged
    <3>2. DOMAIN lines[r]["http"] = 1..1
      BY <2>1, <3>1 DEF Sound, Shapes, AccessLines
    <3>3. QED
      BY <3>1, <3>2
  <2>2. ASSUME Sound, NEW r \in Requests, dir[r]["rpc"] = "over"
        PROVE  /\ Len(lines[r]["rpc"]) = IF method[r] = "Create" THEN 2 ELSE 1
               /\ lines[r]["rpc"][Len(lines[r]["rpc"])].status = code[r]
    BY <2>2 DEF Sound, Good, Recorded, Logged
  <2>3. QED
    BY <2>1, <2>2 DEF AnsweredAndLogged
<1>2. QED
  BY SoundInductive, <1>1, PTL

\* Everything said about a request, in either service, is said under the id in the header
\* of its answer.
THEOREM RequestsAreTraced == Spec => []OneTrace
<1>1. Sound => OneTrace
  <2>1. ASSUME Sound, NEW r \in Requests
        PROVE  /\ others[r] \subseteq {header[r]} /\ header[r] \in {"none", "http", "given"}
               /\ req[r].id = "given" => header[r] \in {"none", "given"}
               /\ \A h \in Hops : \A i \in DOMAIN lines[r][h] : lines[r][h][i].id = header[r]
    <3>1. \A h \in Hops : DOMAIN lines[r][h] = 1..Len(lines[r][h])
      BY <2>1 DEF Sound, Shapes, AccessLines, Hops
    <3>2. QED
      BY <2>1, <3>1 DEF Sound, Good, Traced
  <2>2. QED
    BY <2>1 DEF OneTrace
<1>2. QED
  BY SoundInductive, <1>1, PTL
=============================================================================
