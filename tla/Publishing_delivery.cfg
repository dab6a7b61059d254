\* Two publishes around the start of both services, three disturbances, with fairness.
SPECIFICATION FairSpec
CONSTANTS
  e1 = e1
  e2 = e2
  Events <- TwoEvents
  Rpcs <- OneRpc
  MaxFaults = 3
\* Every call is made once; afterwards nothing has to happen.
CHECK_DEADLOCK FALSE
INVARIANTS TypeOK SuccessWasTaken OnlyFaultsFail
PROPERTIES EveryCallReturns ShutdownEnds
