\* A good event and an undecodable one, two replicas that prefetch two, two retries, two
\* disturbances, with fairness.
SPECIFICATION FairSpec
CONSTANTS
  e1 = e1
  e2 = e2
  c1 = c1
  c2 = c2
  None = None
  Events <- TwoEvents
  Undecodable <- SecondEvent
  BadPayload <- NoEvents
  Consumers <- TwoConsumers
  MaxRetries = 2
  Prefetch = 2
  MaxFaults = 2
\* Once everything is settled or every replica lost its channel nothing moves.
CHECK_DEADLOCK FALSE
INVARIANTS TypeOK SettledAccounted HeldIsWorkedOn RetryBudget DuplicatesCostFaults
PROPERTIES ImplementsLedger EventuallySettled
