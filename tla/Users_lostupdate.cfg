\* Two updates of one user, no disturbance.
SPECIFICATION Spec
CONSTANTS
  r1 = r1
  r2 = r2
  r3 = r3
  n1 = n1
  a = a
  b = b
  None = None
  Requests <- ThreeRequests
  Names <- OneName
  Emails <- TwoEmails
  MaxId = 1
  PoolSize = 2
  MaxFaults = 0
\* Every request is served once; afterwards nothing has to happen.
CHECK_DEADLOCK FALSE
PROPERTY NoLostUpdate
