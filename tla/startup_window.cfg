CONSTANTS
  MaxLoginAttempts = 40
  Window = 24
  Deployments <- ClusterOnly
  Budget <- Once
SPECIFICATION Spec
INVARIANT WindowIsRiddenOut
