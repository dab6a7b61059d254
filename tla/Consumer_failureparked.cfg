\* A recorded failure whose message never reaches the DLQ.
SPECIFICATION Spec
CONSTANTS
  e1 = e1
  e2 = e2
  c1 = c1
  c2 = c2
  None = None
  Events <- OneEvent
  Undecodable <- NoEvents
  BadPayload <- NoEvents
  Consumers <- OneConsumer
  MaxRetries = 1
  Prefetch = 1
  MaxFaults = 1
\* Once everything is settled or every replica lost its channel nothing moves.
CHECK_DEADLOCK FALSE
INVARIANT FailureIsParked
