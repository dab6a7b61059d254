\* One request after the other, a limit of two in a window of two and a half seconds.
SPECIFICATION FairSpec
CONSTANTS
  Requests <- OneRequest
  Global <- WholeChain
  Addresses <- OneAddress
  Limit = 2
  Window = 5
  TicksPerSecond = 2
INVARIANTS TypeOK AnsweredAndLogged OneTrace BurstIsBounded
PROPERTY RefusalEnds
