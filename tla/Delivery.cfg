\* Three registrations or creations of one e-mail, one disturbance.
SPECIFICATION DeliverySpec
CONSTANTS
  r1 = r1
  r2 = r2
  r3 = r3
  n1 = n1
  a = a
  None = None
  Requests <- ThreeRequests
  Names <- OneName
  Emails <- OneEmail
  MaxId = 3
  PoolSize = 1
  MaxFaults = 1
  MaxCopies = 1
\* Every request is made once; afterwards nothing has to happen.
CHECK_DEADLOCK FALSE
INVARIANTS TypeOK RegisterTellsTheTruth AnyAnswerSettles
PROPERTIES RegisteredIsSettled EveryRegistrationAnswered
