\* Three services, one other environment each, three disturbances.
SPECIFICATION FairSpec
CONSTANTS
  Envs <- SomeEnvs
  MaxFaults = 3
\* Once every service runs, and no disturbance is left, nothing has to happen.
CHECK_DEADLOCK FALSE
INVARIANTS TypeOK ServesConfigured
PROPERTY ComesUp
