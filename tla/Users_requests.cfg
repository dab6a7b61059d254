\* Three requests of any kind, two e-mails, a pool of two, one disturbance, with fairness.
SPECIFICATION FairSpec
CONSTANTS
  r1 = r1
  r2 = r2
  r3 = r3
  n1 = n1
  a = a
  b = b
  None = None
  Requests <- ThreeRequests
  Names <- OneName
  Emails <- TwoEmails
  MaxId = 2
  PoolSize = 2
  MaxFaults = 1
\* Every request is served once; afterwards nothing has to happen.
CHECK_DEADLOCK FALSE
INVARIANTS TypeOK UniqueEmails AnswersTellTheTruth ConflictWasReal OneEventPerUser
PROPERTIES EveryRequestAnswered ImplementsAccounts
