--------------------------- MODULE LifecycleProofs ---------------------------
(***************************************************************************)
(* What a serving process may rely on, for any environments the operator   *)
(* may give and any number of disturbances.                                *)
(***************************************************************************)
EXTENDS Lifecycle, TLAPS

\* Every step of the set-up that lies behind leaves a fact that holds for the life of
\* the process.
Grounded(s) ==
  /\ stage[s] > 1 => LoadConfig(s)
  /\ stage[s] > 2 => StoreFits(s)
  /\ s # "auth" /\ stage[s] > 3 =>
       env[s].broker = "good" /\ (s \in conn \/ s \in outage)
  /\ s = "notification" /\ stage[s] > 4 => ttl = RetryTTL(s)

Whole == TypeOK /\ \A s \in Services : Grounded(s)

-----------------------------------------------------------------------------
(* The plans.                                                              *)

\* Which step stands where in main of each service.
LEMMA PlanSteps ==
  /\ DOMAIN Plan["auth"] = 1..4 /\ Len(Plan["auth"]) = 4
  /\ DOMAIN Plan["user"] = 1..6 /\ Len(Plan["user"]) = 6
  /\ DOMAIN Plan["notification"] = 1..6 /\ Len(Plan["notification"]) = 6
  /\ \A s \in Services : Plan[s][1] = "config" /\ Plan[s][2] = "store"
  /\ \A s \in {"user", "notification"} : Plan[s][3] = "broker"
  /\ Plan["notification"][4] = "topology"
  /\ \A s \in Services : \A k \in DOMAIN Plan[s] :
       /\ Plan[s][k] = "topology" => s = "notification" /\ k = 4
       /\ Plan[s][k] = "broker" => k = 3
BY DEF Plan, AuthPlan, UserPlan, NotificationPlan, Services

\* Every plan is at most six steps long.
LEMMA PlanLength ==
  \A s \in Services :
    Len(Plan[s]) \in 4..6 /\ DOMAIN Plan[s] = 1..Len(Plan[s]) /\ (s # "auth" => Len(Plan[s]) = 6)
BY PlanSteps DEF Services

\* An environment is one of those the operator may give.
LEMMA EnvType ==
  ASSUME TypeOK, NEW s \in Services
  PROVE  env[s] \in Environment
BY EnvsAssumption DEF TypeOK, Services

\* A retry delay that the broker takes is one it can have in force.
LEMMA DelayType ==
  ASSUME TypeOK, NEW s \in Services, RetryTTL(s) # "negative"
  PROVE  RetryTTL(s) \in {"none", "30s", "1m"}
<1>1. env[s].delay \in {"absent", "bad", "negative", "30s", "1m"}
  BY EnvType DEF Environment
<1>2. QED
  BY <1>1 DEF RetryTTL, GetEnv

-----------------------------------------------------------------------------
(* Steps.                                                                  *)

\* A process that ends takes its facts with it and leaves those of the others alone.
LEMMA ExitKeeps ==
  ASSUME Whole, NEW s \in Services, Exit(s), UNCHANGED <<env, ttl, outage>>,
         UNCHANGED up, faults' \in 0..MaxFaults
  PROVE  Whole'
<1>1. TypeOK'
  BY DEF Whole, TypeOK, Exit, Of
<1>2. ASSUME NEW r \in Services PROVE Grounded(r)'
  <2>1. CASE r = s
    <3>1. stage'[r] = 0
      BY <2>1 DEF Whole, TypeOK, Exit
    <3>2. QED
      BY <3>1 DEF Grounded
  <2>2. CASE r # s
    <3>1. stage'[r] = stage[r] /\ (r \in conn => r \in conn')
      BY <2>2 DEF Whole, TypeOK, Exit
    <3>2. Grounded(r)
      BY DEF Whole
    <3>3. LoadConfig(r)' = LoadConfig(r)
      BY DEF LoadConfig, AuthConfig, UserConfig, NotificationConfig, Given, KeyLoads
    <3>4. StoreFits(r)' = StoreFits(r)
      BY DEF StoreFits, RedisOptions, Dsn
    <3>5. RetryTTL(r)' = RetryTTL(r)
      BY DEF RetryTTL
    <3>6. QED
      BY <3>1, <3>2, <3>3, <3>4, <3>5 DEF Grounded
  <2>3. QED
    BY <2>1, <2>2
<1>3. QED
  BY <1>1, <1>2 DEF Whole

\* A disturbance stays within its bound.
LEMMA FaultType ==
  ASSUME TypeOK, SpendFault
  PROVE  faults' \in 0..MaxFaults
BY FaultsAssumption DEF TypeOK, SpendFault

\* A step that succeeded establishes its own fact, and disturbs no other.
LEMMA AdvanceKeeps ==
  ASSUME Whole, NEW s \in Services, stage[s] \in DOMAIN Plan[s],
         Works(s, Plan[s][stage[s]]), Advance(s, Plan[s][stage[s]]),
         UNCHANGED <<up, env, outage, faults>>
  PROVE  Whole'
<1> DEFINE step == Plan[s][stage[s]]
<1> USE DEF Whole
<1>1. stage[s] \in 1..6
  BY PlanLength
<1>2. stage' = [stage EXCEPT ![s] = @ + 1]
  BY DEF Advance
<1>3. step = "topology" => RetryQueueFits(s) /\ s = "notification" /\ stage[s] = 4
  BY PlanSteps DEF Works
<1>4. step # "topology" => ttl' = ttl
  BY DEF Advance
<1>5. step = "topology" => ttl' = RetryTTL(s)
  BY DEF Advance
<1>6. conn \subseteq conn' /\ conn' \subseteq conn \cup {s}
  BY DEF Advance
<1>7. TypeOK'
  <2>1. stage' \in [Services -> 0..7]
    BY <1>1, <1>2 DEF TypeOK
  <2>2. ttl' \in {"none", "30s", "1m"}
    BY <1>3, <1>4, <1>5, DelayType DEF TypeOK, RetryQueueFits
  <2>3. conn' \subseteq Services
    BY <1>6 DEF TypeOK
  <2>4. listening' \subseteq Servers /\ signalled' \subseteq Services
    BY DEF TypeOK, Advance
  <2>5. QED
    BY <2>1, <2>2, <2>3, <2>4 DEF TypeOK
<1>8. ASSUME NEW r \in Services PROVE Grounded(r)'
  <2>1. Grounded(r)
    OBVIOUS
  <2>2. LoadConfig(r)' = LoadConfig(r)
    BY DEF LoadConfig, AuthConfig, UserConfig, NotificationConfig, Given, KeyLoads
  <2>3. StoreFits(r)' = StoreFits(r)
    BY DEF StoreFits, RedisOptions, Dsn
  <2>4. RetryTTL(r)' = RetryTTL(r)
    BY DEF RetryTTL
  <2>5. CASE r = s
    <3>1. stage'[s] = stage[s] + 1
      BY <1>2 DEF TypeOK
    <3>2. stage'[s] > 1 => LoadConfig(s)
      <4>1. CASE stage[s] = 1
        <5>1. step = "config"
          BY <4>1, PlanSteps
        <5>2. QED
          BY <5>1 DEF Works
      <4>2. CASE stage[s] # 1
        BY <4>2, <1>1, <2>1, <2>5 DEF Grounded
      <4>3. QED
        BY <4>1, <4>2
    <3>3. stage'[s] > 2 => StoreFits(s)
      <4>1. CASE stage[s] = 2
        <5>1. step = "store"
          BY <4>1, PlanSteps
        <5>2. QED
          BY <5>1 DEF Works, Open
      <4>2. CASE stage[s] # 2
        BY <4>2, <1>1, <3>1, <2>1, <2>5 DEF Grounded
      <4>3. QED
        BY <4>1, <4>2
    <3>4. s # "auth" /\ stage'[s] > 3 => env[s].broker = "good" /\ (s \in conn' \/ s \in outage)
      <4>1. CASE s # "auth" /\ stage[s] = 3
        <5>1. step = "broker"
          BY <4>1, PlanSteps DEF Services
        <5>2. env[s].broker = "good"
          BY <5>1 DEF Works, Dial
        <5>3. s \in conn'
          BY <5>1 DEF Advance
        <5>4. QED
          BY <5>2, <5>3
      <4>2. CASE stage[s] # 3
        BY <4>2, <1>1, <1>6, <3>1, <2>1, <2>5 DEF Grounded
      <4>3. QED
        BY <4>1, <4>2
    <3>5. s = "notification" /\ stage'[s] > 4 => ttl' = RetryTTL(s)
      <4>1. CASE s = "notification" /\ stage[s] = 4
        BY <4>1, <1>5, PlanSteps
      <4>2. CASE stage[s] # 4
        BY <4>2, <1>1, <1>3, <1>4, <3>1, <2>1, <2>5 DEF Grounded
      <4>3. QED
        BY <4>1, <4>2
    <3>6. QED
      BY <2>2, <2>3, <2>4, <2>5, <3>2, <3>3, <3>4, <3>5 DEF Grounded
  <2>6. CASE r # s
    <3>1. stage'[r] = stage[r]
      BY <1>2, <2>6 DEF TypeOK
    <3>2. r = "notification" => ttl' = ttl
      BY <2>6, <1>3, <1>4
    <3>3. QED
      BY <3>1, <3>2, <1>6, <2>1, <2>2, <2>3, <2>4 DEF Grounded
  <2>7. QED
    BY <2>5, <2>6
<1>9. QED
  BY <1>7, <1>8

-----------------------------------------------------------------------------
(* The invariant.                                                          *)

\* No process has done anything yet.
LEMMA WholeInit == Init => Whole
<1> SUFFICES ASSUME Init PROVE Whole
  OBVIOUS
<1>1. TypeOK
  BY FaultsAssumption DEF Init, TypeOK
<1>2. ASSUME NEW s \in Services PROVE Grounded(s)
  <2>1. stage[s] = 0
    BY DEF Init
  <2>2. QED
    BY <2>1 DEF Grounded
<1>3. QED
  BY <1>1, <1>2 DEF Whole

\* Every step of a process, a dependency or the operator keeps the invariant.
LEMMA WholeNext == Whole /\ [Next]_vars => Whole'
<1> SUFFICES ASSUME Whole, [Next]_vars PROVE Whole'
  OBVIOUS
<1> USE DEF Whole
<1>0. ASSUME UNCHANGED env
      PROVE  \A r \in Services : /\ LoadConfig(r)' = LoadConfig(r)
                                 /\ StoreFits(r)' = StoreFits(r)
                                 /\ RetryTTL(r)' = RetryTTL(r)
  <2> TAKE r \in Services
  <2>1. LoadConfig(r)' = LoadConfig(r)
    BY <1>0 DEF LoadConfig, AuthConfig, UserConfig, NotificationConfig, Given, KeyLoads
  <2>2. StoreFits(r)' = StoreFits(r)
    BY <1>0 DEF StoreFits, RedisOptions, Dsn
  <2>3. RetryTTL(r)' = RetryTTL(r)
    BY <1>0 DEF RetryTTL
  <2>4. QED
    BY <2>1, <2>2, <2>3
<1>1. ASSUME NEW s \in Services, Start(s) PROVE Whole'
  <2>1. TypeOK'
    BY <1>1 DEF Start, TypeOK
  <2>2. ASSUME NEW r \in Services PROVE Grounded(r)'
    <3>1. CASE r = s
      <4>1. stage'[r] = 1
        BY <1>1, <3>1 DEF Start, TypeOK
      <4>2. QED
        BY <4>1 DEF Grounded
    <3>2. CASE r # s
      <4>1. stage'[r] = stage[r] /\ (r \in outage => r \in outage')
        BY <1>1, <3>2 DEF Start, TypeOK
      <4>2. UNCHANGED <<env, conn, ttl>>
        BY <1>1 DEF Start
      <4>3. QED
        BY <4>1, <4>2, <1>0 DEF Grounded
    <3>3. QED
      BY <3>1, <3>2
  <2>3. QED
    BY <2>1, <2>2
<1>2. ASSUME NEW s \in Services, SetUp(s) PROVE Whole'
  <2> DEFINE step == Plan[s][stage[s]]
  <2>1. CASE Works(s, step)
    BY <1>2, <2>1, AdvanceKeeps DEF SetUp
  <2>2. CASE ~ Works(s, step)
    <3>1. Exit(s) /\ UNCHANGED <<up, env, ttl, outage, faults>>
      BY <1>2, <2>2 DEF SetUp
    <3>2. faults' \in 0..MaxFaults
      BY <3>1 DEF TypeOK
    <3>3. QED
      BY <3>1, <3>2, ExitKeeps
  <2>3. QED
    BY <2>1, <2>2
<1>3. ASSUME NEW s \in Services, BindFails(s) PROVE Whole'
  BY <1>3, ExitKeeps, FaultType DEF BindFails
<1>4. ASSUME NEW s \in Services, Signal(s) PROVE Whole'
  <2>1. UNCHANGED <<up, env, stage, conn, ttl, outage>>
    BY <1>4 DEF Signal
  <2>2. TypeOK'
    BY <1>4, FaultType DEF Signal, TypeOK
  <2>3. \A r \in Services : Grounded(r)'
    BY <2>1, <1>0 DEF Grounded
  <2>4. QED
    BY <2>2, <2>3
<1>5. ASSUME NEW s \in Services, Stop(s) PROVE Whole'
  <2>1. Exit(s) /\ UNCHANGED <<up, env, ttl, outage, faults>>
    BY <1>5 DEF Stop
  <2>2. faults' \in 0..MaxFaults
    BY <2>1 DEF TypeOK
  <2>3. QED
    BY <2>1, <2>2, ExitKeeps
<1>6. ASSUME NEW s \in Services, Crash(s) PROVE Whole'
  BY <1>6, ExitKeeps, FaultType DEF Crash
<1>7. ASSUME NEW s \in Services, Reconfigure(s) PROVE Whole'
  <2>1. PICK e \in Envs[s] : env' = [env EXCEPT ![s] = e]
    BY <1>7 DEF Reconfigure
  <2>2. UNCHANGED <<up, stage, signalled, conn, listening, ttl, outage>> /\ stage[s] = 0
    BY <1>7 DEF Reconfigure, process
  <2>3. env' \in [auth : Envs["auth"], user : Envs["user"], notification : Envs["notification"]]
    BY <2>1 DEF TypeOK, Services
  <2>4. TypeOK'
    BY <1>7, <2>2, <2>3, FaultType DEF Reconfigure, TypeOK
  <2>5. ASSUME NEW r \in Services PROVE Grounded(r)'
    <3>1. CASE r = s
      BY <2>2, <3>1 DEF Grounded
    <3>2. CASE r # s
      <4>1. env'[r] = env[r]
        BY <2>1, <3>2 DEF TypeOK, Services
      <4>2. LoadConfig(r)' = LoadConfig(r)
        <5>1. CASE r = "auth"
          BY <4>1, <5>1 DEF LoadConfig, AuthConfig, Given, KeyLoads
        <5>2. CASE r = "user"
          BY <4>1, <5>2 DEF LoadConfig, UserConfig, Given
        <5>3. CASE r = "notification"
          BY <4>1, <5>3 DEF LoadConfig, NotificationConfig, Given
        <5>4. QED
          BY <5>1, <5>2, <5>3 DEF Services
      <4>3. StoreFits(r)' = StoreFits(r)
        BY <4>1 DEF StoreFits, RedisOptions, Dsn
      <4>4. RetryTTL(r)' = RetryTTL(r)
        BY <4>1 DEF RetryTTL
      <4>5. QED
        BY <2>2, <4>1, <4>2, <4>3, <4>4 DEF Grounded
    <3>3. QED
      BY <3>1, <3>2
  <2>6. QED
    BY <2>4, <2>5
<1>8. ASSUME NEW d \in Dependencies, Outage(d) PROVE Whole'
  <2>1. UNCHANGED <<env, stage, signalled, ttl>> /\ conn' \subseteq conn /\ outage' \subseteq outage \cup conn
        /\ listening' \subseteq listening /\ up' \subseteq up
    BY <1>8 DEF Outage
  <2>2. TypeOK'
    BY <1>8, <2>1, FaultType DEF Outage, TypeOK
  <2>3. \A r \in Services : r \in conn \/ r \in outage => r \in conn' \/ r \in outage'
    BY <1>8 DEF Outage
  <2>4. \A r \in Services : Grounded(r)'
    BY <2>1, <2>3, <1>0 DEF Grounded
  <2>5. QED
    BY <2>2, <2>4
<1>9. ASSUME NEW d \in Dependencies, Recover(d) PROVE Whole'
  <2>1. UNCHANGED <<env, stage, signalled, conn, listening, ttl, outage, faults>>
        /\ up' = up \cup {d}
    BY <1>9 DEF Recover, process
  <2>2. TypeOK'
    BY <2>1, <1>9 DEF TypeOK, Recover
  <2>3. \A r \in Services : Grounded(r)'
    BY <2>1, <1>0 DEF Grounded
  <2>4. QED
    BY <2>2, <2>3
<1>10. CASE UNCHANGED vars
  <2>1. UNCHANGED <<up, env, stage, signalled, conn, listening, ttl, outage, faults>>
    BY <1>10 DEF vars, process
  <2>2. TypeOK'
    BY <2>1 DEF TypeOK
  <2>3. \A r \in Services : Grounded(r)'
    BY <2>1, <1>0 DEF Grounded
  <2>4. QED
    BY <2>2, <2>3
<1>11. QED
  BY <1>1, <1>2, <1>3, <1>4, <1>5, <1>6, <1>7, <1>8, <1>9, <1>10 DEF Next

\* The variables of the processes, the broker and the environment keep their types.
THEOREM ProcessTypes == Spec => []TypeOK
<1>1. Whole => TypeOK
  BY DEF Whole
<1>2. QED
  BY <1>1, WholeInit, WholeNext, PTL DEF Spec

\* A process that got through the set-up of main serves with settings that were tried,
\* an AMQP connection that only an outage can have cost it, and the configured delay.
THEOREM ServingIsConfigured == Spec => []ServesConfigured
<1>1. Whole => ServesConfigured
  <2> SUFFICES ASSUME Whole, NEW s \in Services, Running(s)
               PROVE  /\ LoadConfig(s) /\ StoreFits(s)
                      /\ s # "auth" => env[s].broker = "good" /\ (s \in conn \/ s \in outage)
                      /\ s = "notification" => ttl = RetryTTL(s)
    BY DEF ServesConfigured
  <2>1. stage[s] \in 0..7
    BY DEF Whole, TypeOK
  <2>2. PICK n \in 4..6 : Len(Plan[s]) = n
    BY PlanLength
  <2>3. stage[s] > 4
    <3>1. stage[s] > n
      BY <2>2 DEF Running
    <3>2. QED
      BY <2>1, <3>1
  <2>4. Grounded(s)
    BY DEF Whole
  <2>5. QED
    BY <2>1, <2>3, <2>4 DEF Grounded
<1>2. QED
  BY <1>1, WholeInit, WholeNext, PTL DEF Spec
=============================================================================
