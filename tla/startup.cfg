CONSTANTS
  MaxLoginAttempts = 40
  Window = 24
  Deployments <- MCDeployments
  Budget <- Once
SPECIFICATION FairSpec
INVARIANTS
  TypeOK
  ServingIsSafe
PROPERTIES
  StartsUp
CHECK_DEADLOCK FALSE
