\* A confirmed publish before the queue was declared.
SPECIFICATION Spec
CONSTANTS
  e1 = e1
  e2 = e2
  Events <- TwoEvents
  Rpcs <- OneRpc
  MaxFaults = 3
\* Every call is made once; afterwards nothing has to happen.
CHECK_DEADLOCK FALSE
INVARIANT StartOrderIsFree
