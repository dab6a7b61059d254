\* Two refreshes of one cookie.
SPECIFICATION Spec
CONSTANTS
  t1 = t1
  t2 = t2
  t3 = t3
  r1 = r1
  r2 = r2
  r3 = r3
  None = None
  Tokens <- ThreeTokens
  Requests <- TwoRequests
  MaxFaults = 0
\* The tokens of the instance run out.
CHECK_DEADLOCK FALSE
INVARIANT SingleUse
