-------------------------- MODULE PublishingProofs --------------------------
(***************************************************************************)
(* What the caller of Publish may believe, and that a graceful shutdown    *)
(* fails no request, for any number of publishes and disturbances.         *)
(***************************************************************************)
EXTENDS Publishing, TLAPS

\* A message that was thrown away began before the queue was bound; a success is not
\* about a frame that can still be lost.
Taken ==
  \A e \in Events :
    /\ bound[e] => "binding" \in declared
    /\ message[e] = "dropped" => ~bound[e]
    /\ call[e] = "ok" => message[e] \in {"queued", "dropped"}

\* Without a fault the connection lasts as long as the process, and the process as long
\* as a request is being served.
Undisturbed ==
  faults = 0 =>
    /\ conn <=> user # "down"
    /\ \A e \in Events : call[e] # "error" /\ (Open(e) => user # "down")

-----------------------------------------------------------------------------

\* The consumer's topology has seven declarations, the exchange among them.
LEMMA SevenDeclarations ==
  Len(Topology) = 7 /\ DOMAIN Topology = 1..7 /\ "exchange" \in Declarations
<1>1. Topology[1] = "exchange" /\ Len(Topology) = 7 /\ DOMAIN Topology = 1..7
  BY DEF Topology
<1>2. QED
  BY <1>1 DEF Declarations

\* Every step of the two services and of the broker keeps the types.
LEMMA TypesKept == TypeOK /\ [Next]_vars => TypeOK'
<1> SUFFICES ASSUME TypeOK, [Next]_vars PROVE TypeOK'
  OBVIOUS
<1> USE FaultsAssumption DEF TypeOK, SpendFault, publisher, consumer, Open
<1>1. CASE UserStart
  <2>1. declared' \subseteq Declarations
    BY <1>1, SevenDeclarations DEF UserStart
  <2>2. QED
    BY <1>1, <2>1 DEF UserStart
<1>2. CASE LoseConnection
  <2>1. message' \in [Events -> {"none", "wire", "queued", "dropped"}]
    BY <1>2, Zenon DEF LoseConnection, InFlightLost
  <2>2. call' \in [Events -> {"none", "serving", "waiting", "ok", "error", "cut"}]
    BY <1>2 DEF LoseConnection
  <2>3. user' \in {"down", "up", "draining"} /\ late' \in BOOLEAN /\ conn' \in BOOLEAN
    BY <1>2, Zenon DEF LoseConnection
  <2>4. faults' \in 0..MaxFaults
    <3>1. faults < MaxFaults /\ faults' = faults + 1
      BY <1>2, Zenon DEF LoseConnection
    <3>2. QED
      BY <3>1
  <2>5. UNCHANGED <<declared, bound, notif, next>>
    BY <1>2 DEF LoseConnection
  <2>6. QED
    BY <2>1, <2>2, <2>3, <2>4, <2>5
<1>3. CASE UserCrash
  <2>1. message' \in [Events -> {"none", "wire", "queued", "dropped"}]
    BY <1>3, Zenon DEF UserCrash, InFlightLost
  <2>2. call' \in [Events -> {"none", "serving", "waiting", "ok", "error", "cut"}]
    BY <1>3 DEF UserCrash
  <2>3. user' \in {"down", "up", "draining"} /\ late' \in BOOLEAN /\ conn' \in BOOLEAN
    BY <1>3, Zenon DEF UserCrash
  <2>4. faults' \in 0..MaxFaults
    <3>1. faults < MaxFaults /\ faults' = faults + 1
      BY <1>3, Zenon DEF UserCrash
    <3>2. QED
      BY <3>1
  <2>5. UNCHANGED <<declared, bound, notif, next>>
    BY <1>3 DEF UserCrash
  <2>6. QED
    BY <2>1, <2>2, <2>3, <2>4, <2>5
<1>4. CASE Signal
  BY <1>4, SevenDeclarations DEF Signal
<1>5. CASE TimeUp
  BY <1>5, SevenDeclarations DEF TimeUp
<1>6. CASE UserExit
  BY <1>6, SevenDeclarations DEF UserExit
<1>7. CASE NotifStart
  BY <1>7, SevenDeclarations DEF NotifStart
<1>8. CASE Declare
  <2>1. next \in DOMAIN Topology /\ next + 1 \in 1..Len(Topology) + 1
    BY <1>8, SevenDeclarations DEF Declare
  <2>2. declared' \subseteq Declarations
    BY <1>8, <2>1 DEF Declare, Declarations
  <2>3. QED
    BY <1>8, <2>1, <2>2 DEF Declare
<1>9. CASE Consume
  BY <1>9, SevenDeclarations DEF Consume
<1>10. CASE NotifEnd
  BY <1>10, SevenDeclarations DEF NotifEnd
<1>11. ASSUME NEW e \in Events, Accept(e) PROVE TypeOK'
  BY <1>11 DEF Accept
<1>12. ASSUME NEW e \in Events, Publish(e) PROVE TypeOK'
  BY <1>12 DEF Publish
<1>13. ASSUME NEW e \in Events, Confirm(e) PROVE TypeOK'
  BY <1>13 DEF Confirm
<1>14. ASSUME NEW e \in Events, Refuse(e) PROVE TypeOK'
  BY <1>14 DEF Refuse
<1>15. ASSUME NEW e \in Events, GiveUp(e) PROVE TypeOK'
  BY <1>15 DEF GiveUp
<1>16. ASSUME NEW e \in Events, Route(e) PROVE TypeOK'
  BY <1>16 DEF Route
<1>17. ASSUME NEW e \in Events, Cancelled(e) PROVE TypeOK'
  BY <1>17 DEF Cancelled
<1>18. CASE UNCHANGED vars
  BY <1>18 DEF vars
<1>19. QED
  BY <1>1, <1>2, <1>3, <1>4, <1>5, <1>6, <1>7, <1>8, <1>9, <1>10, <1>11, <1>12, <1>13, <1>14,
     <1>15, <1>16, <1>17, <1>18 DEF Next

\* Bindings only grow, and a confirmation follows the routing.
LEMMA TakenKept ==
  ASSUME TypeOK, Taken, [Next]_vars
  PROVE  Taken'
<1> USE DEF TypeOK, Taken, publisher, consumer, Open
<1>1. CASE UserStart
  BY <1>1 DEF UserStart
<1>2. CASE LoseConnection
  BY <1>2 DEF LoseConnection, InFlightLost
<1>3. CASE UserCrash
  BY <1>3 DEF UserCrash, InFlightLost
<1>4. CASE Signal
  BY <1>4 DEF Signal
<1>5. CASE TimeUp
  BY <1>5 DEF TimeUp
<1>6. CASE UserExit
  BY <1>6 DEF UserExit
<1>7. CASE NotifStart
  BY <1>7 DEF NotifStart
<1>8. CASE Declare
  BY <1>8 DEF Declare
<1>9. CASE Consume
  BY <1>9 DEF Consume
<1>10. CASE NotifEnd
  BY <1>10 DEF NotifEnd
<1>11. ASSUME NEW e \in Events, Accept(e) PROVE Taken'
  BY <1>11 DEF Accept
<1>12. ASSUME NEW e \in Events, Publish(e) PROVE Taken'
  BY <1>12 DEF Publish
<1>13. ASSUME NEW e \in Events, Confirm(e) PROVE Taken'
  BY <1>13 DEF Confirm
<1>14. ASSUME NEW e \in Events, Refuse(e) PROVE Taken'
  BY <1>14 DEF Refuse
<1>15. ASSUME NEW e \in Events, GiveUp(e) PROVE Taken'
  BY <1>15 DEF GiveUp
<1>16. ASSUME NEW e \in Events, Route(e) PROVE Taken'
  BY <1>16 DEF Route
<1>17. ASSUME NEW e \in Events, Cancelled(e) PROVE Taken'
  BY <1>17 DEF Cancelled
<1>18. CASE UNCHANGED vars
  BY <1>18 DEF vars
<1>19. QED
  BY <1>1, <1>2, <1>3, <1>4, <1>5, <1>6, <1>7, <1>8, <1>9, <1>10, <1>11, <1>12, <1>13, <1>14,
     <1>15, <1>16, <1>17, <1>18 DEF Next

\* The servers stop accepting, drain, and only then is the connection closed.
LEMMA UndisturbedKept ==
  ASSUME TypeOK, Undisturbed, [Next]_vars
  PROVE  Undisturbed'
<1>f. SpendFault => faults' # 0
  BY FaultsAssumption DEF TypeOK, SpendFault
<1> USE <1>f DEF TypeOK, Undisturbed, publisher, consumer, Open
<1>1. CASE UserStart
  BY <1>1 DEF UserStart
<1>2. CASE LoseConnection
  BY <1>2 DEF LoseConnection, InFlightLost
<1>3. CASE UserCrash
  BY <1>3 DEF UserCrash, InFlightLost
<1>4. CASE Signal
  BY <1>4 DEF Signal
<1>5. CASE TimeUp
  BY <1>5 DEF TimeUp
<1>6. CASE UserExit
  BY <1>6 DEF UserExit
<1>7. CASE NotifStart
  BY <1>7 DEF NotifStart
<1>8. CASE Declare
  BY <1>8 DEF Declare
<1>9. CASE Consume
  BY <1>9 DEF Consume
<1>10. CASE NotifEnd
  BY <1>10 DEF NotifEnd
<1>11. ASSUME NEW e \in Events, Accept(e) PROVE Undisturbed'
  BY <1>11 DEF Accept
<1>12. ASSUME NEW e \in Events, Publish(e) PROVE Undisturbed'
  BY <1>12 DEF Publish
<1>13. ASSUME NEW e \in Events, Confirm(e) PROVE Undisturbed'
  BY <1>13 DEF Confirm
<1>14. ASSUME NEW e \in Events, Refuse(e) PROVE Undisturbed'
  BY <1>14 DEF Refuse
<1>15. ASSUME NEW e \in Events, GiveUp(e) PROVE Undisturbed'
  BY <1>15 DEF GiveUp
<1>16. ASSUME NEW e \in Events, Route(e) PROVE Undisturbed'
  BY <1>16 DEF Route
<1>17. ASSUME NEW e \in Events, Cancelled(e) PROVE Undisturbed'
  BY <1>17 DEF Cancelled
<1>18. CASE UNCHANGED vars
  BY <1>18 DEF vars
<1>19. QED
  BY <1>1, <1>2, <1>3, <1>4, <1>5, <1>6, <1>7, <1>8, <1>9, <1>10, <1>11, <1>12, <1>13, <1>14,
     <1>15, <1>16, <1>17, <1>18 DEF Next

-----------------------------------------------------------------------------

\* The state of the two services and of the broker is always well formed.
THEOREM PublishingTypes == Spec => []TypeOK
<1>1. Init => TypeOK
  <2> SUFFICES ASSUME Init PROVE TypeOK
    OBVIOUS
  <2>1. next \in 1..Len(Topology) + 1
    BY SevenDeclarations DEF Init
  <2>2. /\ call \in [Events -> {"none", "serving", "waiting", "ok", "error", "cut"}]
        /\ message \in [Events -> {"none", "wire", "queued", "dropped"}]
        /\ bound \in [Events -> BOOLEAN]
    BY DEF Init
  <2>3. declared \subseteq Declarations /\ faults \in 0..MaxFaults
    BY FaultsAssumption DEF Init
  <2>4. /\ user \in {"down", "up", "draining"} /\ late \in BOOLEAN /\ conn \in BOOLEAN
        /\ notif \in {"down", "declaring", "consuming"}
    BY DEF Init
  <2>5. QED
    BY <2>1, <2>2, <2>3, <2>4 DEF TypeOK
<1>2. QED
  BY <1>1, TypesKept, PTL DEF Spec

\* A publish that succeeded was taken by the broker, and is in the queue if the queue was
\* bound when it began: no restart, lost connection or nack comes between.
THEOREM SuccessIsTaken == Spec => []SuccessWasTaken
<1>1. Init => Taken
  BY DEF Init, Taken
<1>2. Taken => SuccessWasTaken
  BY DEF Taken, SuccessWasTaken
<1>3. QED
  BY <1>1, <1>2, TakenKept, PublishingTypes, PTL DEF Spec

\* Without a fault no publish fails, though the service may be told to stop and start
\* again at any time.
THEOREM GracefulForPublishes == Spec => []OnlyFaultsFail
<1>1. Init => Undisturbed
  BY DEF Init, Undisturbed, Open
<1>2. Undisturbed => OnlyFaultsFail
  BY DEF Undisturbed, OnlyFaultsFail
<1>3. QED
  BY <1>1, <1>2, UndisturbedKept, PublishingTypes, PTL DEF Spec
=============================================================================
