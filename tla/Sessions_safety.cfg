\* Three tokens, three requests open at once, one disturbance.
SPECIFICATION Spec
CONSTANTS
  t1 = t1
  t2 = t2
  t3 = t3
  r1 = r1
  r2 = r2
  r3 = r3
  None = None
  Tokens <- ThreeTokens
  Requests <- ThreeRequests
  MaxFaults = 1
\* The tokens of the instance run out.
CHECK_DEADLOCK FALSE
SYMMETRY Swaps
INVARIANTS TypeOK NoOverlap LogoutEnds JarIsLive
