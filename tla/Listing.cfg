\* Walks over a table of up to four rows with two writes on the way.
SPECIFICATION Spec
CONSTANTS
  None = None
  MaxId = 4
  Names <- TwoNames
  Sorts <- SomeSorts
  Limits <- SomeLimits
  DefaultLimit = 2
  MaxLimit = 3
  MaxWrites = 2
\* The walk ends.
CHECK_DEADLOCK FALSE
INVARIANTS TypeOK WalkIsComplete NeverTwice NothingMissed
